---- MODULE Spec2Model ----
(***************************************************************************)
(* byteordered: reading and writing fixed-width numbers from/to byte       *)
(* streams under a byte order known at compile time (StaticEndianness<E>)  *)
(* or at run time (Endianness), and the ByteOrdered wrapper that pairs an  *)
(* endpoint with such a capability.                                        *)
(*                                                                         *)
(* A numeric value is its type plus its base-256 digits: d[i] is the digit *)
(* of weight 256^i (i = 0 .. size-1).  This keeps every width exact,       *)
(* 64 and 128 bits included, and keeps float bit patterns as they are.     *)
(***************************************************************************)
EXTENDS Integers, Sequences, FiniteSets, TLC

VARIABLES
    target,      \* cfg(target_endian) of the build: "little" or "big"
    endpoint,    \* what `inner` is: "reader" (R: Read), "writer" (W: Write), or "pipe" (both)
    src,         \* bytes of the source stream
    pos,         \* number of bytes of src already consumed
    sink,        \* bytes the sink has received
    faults,      \* device faults the endpoint may still raise
    wrapped,     \* TRUE: calls go through a ByteOrdered; FALSE: bare capability
    endianness,  \* the capability held (ByteOrdered.endianness, or the bare value)
    written,     \* successful numeric writes so far, in call order
    consumed,    \* bytes the successful reads asked for, and whether no read failed
    scope,       \* the with_order! invocation in progress or just ended
    view,        \* the as_mut view in use or just dropped, and the order of its origin
    last         \* the call made last, with what it was given and what it returned

vars == <<target, endpoint, src, pos, sink, faults, wrapped, endianness, written, consumed, scope, view, last>>

(***************************************************************************)
(* Bounds                                                                  *)
(***************************************************************************)
MaxFaults == 1   \* device faults injected per run
MaxWrites == 2   \* numeric writes per run
MaxDst == 2      \* longest destination slice of a bulk read

(***************************************************************************)
(* Numeric types                                                           *)
(***************************************************************************)
Types == {"i16", "u16", "i32", "u32", "i64", "u64", "i128", "u128", "f32", "f64"}
Unsigned == {"u16", "u32", "u64", "u128"}
Signed == {"i16", "i32", "i64", "i128"}

ByteTypes == {"i8", "u8"}

Size(ty) ==
    CASE ty \in {"i8", "u8"} -> 1
      [] ty \in {"i16", "u16"} -> 2
      [] ty \in {"i32", "u32", "f32"} -> 4
      [] ty \in {"i64", "u64", "f64"} -> 8
      [] ty \in {"i128", "u128"} -> 16

Byte == 0..255

\* The value of type ty written most significant byte first, as in a hex literal.
Lit(ty, hex) == [ty |-> ty, d |-> [i \in 0..(Size(ty) - 1) |-> hex[Size(ty) - i]]]

\* The value of an 8-bit type holding the integer x (two's complement).
Int8(ty, x) == [ty |-> ty, d |-> [i \in 0..0 |-> x % 256]]

\* The value of a 16-bit type holding the integer x (two's complement).
Int16(ty, x) == [ty |-> ty, d |-> [i \in 0..1 |-> IF i = 0 THEN (x % 65536) % 256 ELSE (x % 65536) \div 256]]

\* The integer a 16-bit value denotes.
IntOf(v) ==
    LET u == v.d[0] + 256 * v.d[1]
    IN IF v.ty = "i16" /\ u >= 32768 THEN u - 65536 ELSE u

Rep(n, b) == [k \in 1..n |-> b]

(***************************************************************************)
(* Order, static tags and run-time values                                  *)
(***************************************************************************)
LittleEndian == "LittleEndian"
BigEndian == "BigEndian"
Little == "Little"
Big == "Big"

\* byteorder::NativeEndian is a type alias resolved by cfg(target_endian).
NativeEndian == IF target = "little" THEN LittleEndian ELSE BigEndian

\* byteorder::NetworkEndian is a type alias of BigEndian.
NetworkEndian == BigEndian

StaticEndianness(E) == [kind |-> "StaticEndianness", order |-> E]
Endianness(e) == [kind |-> "Endianness", order |-> e]

Capabilities ==
    {StaticEndianness(E) : E \in {LittleEndian, BigEndian}} \cup
    {Endianness(e) : e \in {Little, Big}}

LE == Endianness(Little)
BE == Endianness(Big)

HasOpposite(E) == IF E = LittleEndian THEN BigEndian ELSE LittleEndian

StaticNative_is_native(E) ==
    CASE E = NativeEndian -> TRUE
      [] target = "little" /\ E = BigEndian -> FALSE
      [] target = "big" /\ E = LittleEndian -> FALSE

\* As native, with the two cfg(target_endian) attributes exchanged.
native_swapped == IF target = "little" THEN Big ELSE Little

\* As native, left unresolved: an order of its own.
native_unresolved == "Native"

native == IF target = "little" THEN Little ELSE Big

\* As le_iff, with the two branches exchanged.
le_iff_inverted(e) == IF e THEN Big ELSE Little

le_iff(e) == IF e THEN Little ELSE Big

be_iff(e) == IF e THEN Big ELSE Little

\* As to_opposite, with the comparison lost: always Big.
to_opposite_big(self) == Big

to_opposite(self) == IF self = Little THEN Big ELSE Little

into_opposite(c) ==
    IF c.kind = "StaticEndianness"
    THEN StaticEndianness(HasOpposite(c.order))
    ELSE Endianness(to_opposite(c.order))

is_native(c) ==
    IF c.kind = "StaticEndianness"
    THEN StaticNative_is_native(c.order)
    ELSE c.order = native

\* As From, with the two impls exchanged.
From_swapped(c) == IF c.order = LittleEndian THEN Endianness(Big) ELSE Endianness(Little)

From(c) == IF c.order = LittleEndian THEN Endianness(Little) ELSE Endianness(Big)

\* a == b across the two providers: the derived equality within one kind, and
\* the PartialEq impls between a tag and a runtime value or another tag.
PartialEq_eq(a, b) ==
    CASE a.kind = b.kind -> a.order = b.order
      [] a.kind = "StaticEndianness" /\ a.order = BigEndian -> b.order = Big
      [] a.kind = "StaticEndianness" /\ a.order = LittleEndian -> b.order = Little
      [] b.kind = "StaticEndianness" /\ b.order = BigEndian -> a.order = Big
      [] b.kind = "StaticEndianness" /\ b.order = LittleEndian -> a.order = Little

(***************************************************************************)
(* The endpoint: std::io::Read::read_exact and std::io::Write::write_all   *)
(* (external).  Each returns the set of outcomes the endpoint may produce: *)
(* a short stream gives UnexpectedEof, having consumed nothing (a slice)   *)
(* or all that was left (the default read_exact); a device fault gives     *)
(* Other before the first byte or before the last one was transferred.     *)
(***************************************************************************)
Min(a, b) == IF a < b THEN a ELSE b

IoError(kind, prim, at) == [kind |-> kind, prim |-> prim, at |-> at]

read_exact(data, p, n, f) ==
    LET avail == Len(data) - p
    IN  {[ok |-> TRUE, buf |-> SubSeq(data, p + 1, p + n), got |-> n, err |-> <<>>,
          pos |-> p + n, faults |-> f] : x \in IF n <= avail THEN {0} ELSE {}}
        \cup
        {[ok |-> FALSE, buf |-> SubSeq(data, p + 1, p + k), got |-> k,
          err |-> <<IoError("UnexpectedEof", "read_exact", p + k)>>,
          pos |-> p + k, faults |-> f] : k \in IF n > avail THEN {0, avail} ELSE {}}
        \cup
        {[ok |-> FALSE, buf |-> SubSeq(data, p + 1, p + k), got |-> k,
          err |-> <<IoError("Other", "read_exact", p + k)>>,
          pos |-> p + k, faults |-> f - 1] : k \in IF f > 0 /\ n > 0 THEN {0, Min(n - 1, avail)} ELSE {}}

write_all(out, bytes, f) ==
    {[ok |-> TRUE, err |-> <<>>, sink |-> out \o bytes, faults |-> f]}
    \cup
    {[ok |-> FALSE, err |-> <<IoError("Other", "write_all", Len(out) + k)>>,
      sink |-> out \o SubSeq(bytes, 1, k), faults |-> f - 1]
        : k \in IF f > 0 /\ Len(bytes) > 0 THEN {0, Len(bytes) - 1} ELSE {}}

\* What the endpoint was asked and what it answered.
IoCall(prim, n, r) == [prim |-> prim, n |-> n, ok |-> r.ok, err |-> r.err]

(***************************************************************************)
(* byteorder (external): ByteOrder codecs and ReadBytesExt / WriteBytesExt *)
(***************************************************************************)
\* As ByteOrder_read, but a little-endian value of four bytes or more is put
\* together with its two halves exchanged (each half little-endian).
ByteOrder_read_mixed(E, ty, buf) ==
    LET n == Size(ty)
    IN  [ty |-> ty,
         d |-> [i \in 0..(n - 1) |->
                  IF E = LittleEndian
                  THEN (IF n >= 4 THEN buf[((i + n \div 2) % n) + 1] ELSE buf[i + 1])
                  ELSE buf[n - i]]]

\* As ByteOrder_read, but a signed type loses its top bit (the magnitude is kept,
\* not the bit pattern).
ByteOrder_read_magnitude(E, ty, buf) ==
    [ty |-> ty,
     d |-> [i \in 0..(Size(ty) - 1) |->
              LET b == IF E = LittleEndian THEN buf[i + 1] ELSE buf[Size(ty) - i]
              IN  IF ty \in Signed /\ i = Size(ty) - 1 THEN b % 128 ELSE b]]

ByteOrder_read(E, ty, buf) ==
    [ty |-> ty,
     d |-> [i \in 0..(Size(ty) - 1) |-> IF E = LittleEndian THEN buf[i + 1] ELSE buf[Size(ty) - i]]]

ByteOrder_write(E, v) ==
    [k \in 1..Size(v.ty) |-> IF E = LittleEndian THEN v.d[k - 1] ELSE v.d[Size(v.ty) - k]]

\* src.read_ty::<E>(): one read_exact of size_of(ty) bytes, then the codec.
ReadBytesExt_read(E, ty, data, p, f) ==
    {[ok |-> r.ok,
      val |-> IF r.ok THEN <<ByteOrder_read(E, ty, r.buf)>> ELSE <<>>,
      err |-> r.err, pos |-> r.pos, faults |-> r.faults,
      io |-> <<IoCall("read_exact", Size(ty), r)>>] : r \in read_exact(data, p, Size(ty), f)}

\* dst seen as memory: element j occupies bytes j*size+1 .. (j+1)*size.
Chunk(mem, ty, j) == SubSeq(mem, j * Size(ty) + 1, (j + 1) * Size(ty))

\* src.read_ty_into::<E>(dst): one read_exact over the whole of dst, then the
\* codec on every element.  After a failure the contents of dst are unspecified
\* and no value is reported.
ReadBytesExt_read_into(E, ty, n, data, p, f) ==
    {[ok |-> r.ok,
      val |-> IF r.ok
              THEN [j \in 1..n |-> ByteOrder_read(E, ty, Chunk(r.buf, ty, j - 1))]
              ELSE <<>>,
      err |-> r.err, pos |-> r.pos, faults |-> r.faults,
      io |-> <<IoCall("read_exact", n * Size(ty), r)>>]
        : r \in read_exact(data, p, n * Size(ty), f)}

\* dst.write_ty::<E>(x): the codec, then one write_all of size_of(ty) bytes.
WriteBytesExt_write(E, v, out, f) ==
    {[ok |-> r.ok, err |-> r.err, sink |-> r.sink, faults |-> r.faults,
      io |-> <<IoCall("write_all", Size(v.ty), r)>>] : r \in write_all(out, ByteOrder_write(E, v), f)}

(***************************************************************************)
(* base.rs: the Endian capability of both providers                        *)
(***************************************************************************)
\* As fn_static_endianness_read, but a failed read yields a value decoded from
\* whatever bytes were there (the error is dropped).
fn_static_endianness_read_lenient(E, ty, data, p, f) ==
    {[ok |-> TRUE,
      val |-> IF r.ok THEN r.val
              ELSE <<ByteOrder_read(E, ty, SubSeq(data, p + 1, r.pos) \o Rep(Size(ty) - (r.pos - p), 0))>>,
      err |-> <<>>, pos |-> r.pos, faults |-> r.faults, io |-> r.io]
        : r \in ReadBytesExt_read(E, ty, data, p, f)}

\* As fn_static_endianness_read, but decoding in the native order whatever E is.
fn_static_endianness_read_native(E, ty, data, p, f) == ReadBytesExt_read(NativeEndian, ty, data, p, f)

fn_static_endianness_read(E, ty, data, p, f) == ReadBytesExt_read(E, ty, data, p, f)

\* As fn_static_endianness_read_into, but decoding in the native order whatever E is.
fn_static_endianness_read_into_native(E, ty, n, data, p, f) ==
    ReadBytesExt_read_into(NativeEndian, ty, n, data, p, f)

\* As fn_static_endianness_read_into, but a failed call is made once more from
\* where the endpoint was left.
fn_static_endianness_read_into_retry(E, ty, n, data, p, f) ==
    UNION {IF r.ok
           THEN {r}
           ELSE {[again EXCEPT !.io = r.io \o again.io]
                    : again \in ReadBytesExt_read_into(E, ty, n, data, r.pos, r.faults)}
              : r \in ReadBytesExt_read_into(E, ty, n, data, p, f)}

fn_static_endianness_read_into(E, ty, n, data, p, f) == ReadBytesExt_read_into(E, ty, n, data, p, f)

\* As fn_static_endianness_write, but encoding in the native order whatever E is.
fn_static_endianness_write_native(E, v, out, f) == WriteBytesExt_write(NativeEndian, v, out, f)

fn_static_endianness_write(E, v, out, f) == WriteBytesExt_write(E, v, out, f)

\* As fn_runtime_endianness_read, with both match arms reading as Little.
fn_runtime_endianness_read_little(self, ty, data, p, f) ==
    ReadBytesExt_read(LittleEndian, ty, data, p, f)

\* As fn_runtime_endianness_read, with the two match arms exchanged.
fn_runtime_endianness_read_swapped(self, ty, data, p, f) ==
    IF self = Little
    THEN ReadBytesExt_read(BigEndian, ty, data, p, f)
    ELSE ReadBytesExt_read(LittleEndian, ty, data, p, f)

fn_runtime_endianness_read(self, ty, data, p, f) ==
    IF self = Little
    THEN ReadBytesExt_read(LittleEndian, ty, data, p, f)
    ELSE ReadBytesExt_read(BigEndian, ty, data, p, f)

\* As fn_runtime_endianness_read_into, but the first element is read before the
\* length of dst is looked at.
fn_runtime_endianness_read_into_eager(self, ty, n, data, p, f) ==
    LET m == IF n = 0 THEN 1 ELSE n
    IN  {[r EXCEPT !.val = IF r.ok THEN SubSeq(r.val, 1, n) ELSE <<>>]
            : r \in IF self = Little
                    THEN ReadBytesExt_read_into(LittleEndian, ty, m, data, p, f)
                    ELSE ReadBytesExt_read_into(BigEndian, ty, m, data, p, f)}

\* As fn_runtime_endianness_read_into, with the two match arms exchanged.
fn_runtime_endianness_read_into_swapped(self, ty, n, data, p, f) ==
    IF self = Little
    THEN ReadBytesExt_read_into(BigEndian, ty, n, data, p, f)
    ELSE ReadBytesExt_read_into(LittleEndian, ty, n, data, p, f)

fn_runtime_endianness_read_into(self, ty, n, data, p, f) ==
    IF self = Little
    THEN ReadBytesExt_read_into(LittleEndian, ty, n, data, p, f)
    ELSE ReadBytesExt_read_into(BigEndian, ty, n, data, p, f)

\* As fn_runtime_endianness_write, with the Big arm encoding as Little.
fn_runtime_endianness_write_little(self, v, out, f) ==
    WriteBytesExt_write(LittleEndian, v, out, f)

\* As fn_runtime_endianness_write, but the endpoint's error is dropped.
fn_runtime_endianness_write_silent(self, v, out, f) ==
    {[r EXCEPT !.ok = TRUE, !.err = <<>>]
        : r \in IF self = Little
                THEN WriteBytesExt_write(LittleEndian, v, out, f)
                ELSE WriteBytesExt_write(BigEndian, v, out, f)}

fn_runtime_endianness_write(self, v, out, f) ==
    IF self = Little
    THEN WriteBytesExt_write(LittleEndian, v, out, f)
    ELSE WriteBytesExt_write(BigEndian, v, out, f)

Endian_read(c, ty, data, p, f) ==
    IF c.kind = "StaticEndianness"
    THEN fn_static_endianness_read(c.order, ty, data, p, f)
    ELSE fn_runtime_endianness_read(c.order, ty, data, p, f)

Endian_read_into(c, ty, n, data, p, f) ==
    IF c.kind = "StaticEndianness"
    THEN fn_static_endianness_read_into(c.order, ty, n, data, p, f)
    ELSE fn_runtime_endianness_read_into(c.order, ty, n, data, p, f)

Endian_write(c, v, out, f) ==
    IF c.kind = "StaticEndianness"
    THEN fn_static_endianness_write(c.order, v, out, f)
    ELSE fn_runtime_endianness_write(c.order, v, out, f)

(***************************************************************************)
(* wrap.rs: ByteOrdered forwards to the capability it holds                *)
(***************************************************************************)
\* As ByteOrdered_read, but handing the capability a copy of the reader, so that
\* the wrapper's own reader does not move.
ByteOrdered_read_copy(self_endianness, ty, inner, p, f) ==
    {[r EXCEPT !.pos = p] : r \in Endian_read(self_endianness, ty, inner, p, f)}

ByteOrdered_read(self_endianness, ty, inner, p, f) == Endian_read(self_endianness, ty, inner, p, f)

ByteOrdered_read_into(self_endianness, ty, n, inner, p, f) == Endian_read_into(self_endianness, ty, n, inner, p, f)

\* As ByteOrdered_write, but through the opposite of the held capability.
ByteOrdered_write_opposite(self_endianness, v, inner, f) ==
    Endian_write(into_opposite(self_endianness), v, inner, f)

ByteOrdered_write(self_endianness, v, inner, f) == Endian_write(self_endianness, v, inner, f)

\* As ByteOrdered_set_endianness, but the assignment is lost.
ByteOrdered_set_endianness_kept(self_endianness, e) == self_endianness

\* self.endianness = endianness: the capability held afterwards.
ByteOrdered_set_endianness(self_endianness, e) == e

\* The constructors, by the capability the new wrapper holds (inner is the endpoint).
ByteOrdered_new(e) == e

ByteOrdered_new_default(E) == StaticEndianness(E)

ByteOrdered_le == ByteOrdered_new_default(LittleEndian)

ByteOrdered_be == ByteOrdered_new_default(BigEndian)

\* As ByteOrdered_native, with the tag fixed to LittleEndian whatever the target.
ByteOrdered_native_little == ByteOrdered_new_default(LittleEndian)

ByteOrdered_native == ByteOrdered_new_default(NativeEndian)

ByteOrdered_network == ByteOrdered_new_default(NetworkEndian)

ByteOrdered_runtime(e) == ByteOrdered_new(Endianness(e))

\* As ByteOrdered_endianness, reporting the platform's order whatever is held.
ByteOrdered_endianness_native(self_endianness) ==
    IF self_endianness.kind = "StaticEndianness"
    THEN StaticEndianness(NativeEndian)
    ELSE Endianness(native)

\* endianness(): the capability held.
ByteOrdered_endianness(self_endianness) == self_endianness

\* As ByteOrdered_as_mut, but the view is given the opposite of the order held.
ByteOrdered_as_mut_opposite(self_endianness) == ByteOrdered_new(into_opposite(self_endianness))

\* as_mut: the capability of the view, a copy of the one held.
ByteOrdered_as_mut(self_endianness) == ByteOrdered_new(self_endianness)

\* The conversions, by the capability the resulting wrapper holds.
ByteOrdered_into_endianness(self_endianness, e) == ByteOrdered_new(e)

ByteOrdered_into_le(self_endianness) == ByteOrdered_le

ByteOrdered_into_be(self_endianness) == ByteOrdered_be

ByteOrdered_into_native(self_endianness) == ByteOrdered_native

ByteOrdered_into_opposite(self_endianness) == into_opposite(self_endianness)

(***************************************************************************)
(* Inputs                                                                  *)
(***************************************************************************)
TEST_BYTES == <<18, 52, 86, 120, 33, 67, 101, 135>>

CoreStreams == {<<>>, <<4, 1>>, <<0, 193, 255, 124>>}

Streams ==
    CoreStreams \cup
    {<<7>>, <<9, 9>>, <<16, 1>>, <<1, 2, 3>>,
     <<1, 2, 1, 2>>, <<1, 2, 2, 1>>, <<1, 2, 3, 4>>,
     TEST_BYTES,
     TEST_BYTES \o <<135, 101, 67, 33, 120, 86, 52, 18>>,
     <<1, 2, 3, 4, 5, 6, 7, 8, 9, 10, 11, 12, 13, 14, 15, 16, 17, 18>>}

CoreSamples ==
    {Int16("i16", 193), Int16("i16", 0 - 132), Lit("u32", <<120, 86, 52, 18>>),
     Lit("f64", <<127, 248, 0, 0, 0, 0, 0, 1>>)}

\* Values to write: zero, the extremes, and values whose bytes all differ.
Samples ==
    CoreSamples \cup
    {Int16("i16", 0), Int16("i16", 0 - 32768), Int16("i16", 32767),
     Int16("u16", 0), Int16("u16", 65535), Int16("u16", 523),
     Lit("i32", <<128, 0, 0, 0>>), Lit("i32", <<127, 255, 255, 255>>),
     Lit("u32", <<255, 255, 255, 255>>), Lit("u32", Rep(4, 0)),
     Lit("i64", <<128, 0, 0, 0, 0, 0, 0, 0>>), Lit("i64", <<1, 2, 3, 4, 5, 6, 7, 8>>),
     Lit("u64", Rep(8, 0)), Lit("u64", Rep(8, 255)),
     Lit("u64", <<135, 101, 67, 33, 120, 86, 52, 18>>),
     Lit("u64", <<18, 52, 86, 120, 33, 67, 101, 135>>),
     Lit("i128", <<128>> \o Rep(15, 0)), Lit("i128", <<127>> \o Rep(15, 255)),
     Lit("u128", Rep(16, 255)), Lit("u128", Rep(16, 0)),
     Lit("u128", <<1, 2, 3, 4, 5, 6, 7, 8, 9, 10, 11, 12, 13, 14, 15, 16>>),
     Lit("f32", <<128, 0, 0, 0>>), Lit("f32", <<127, 192, 0, 1>>), Lit("f32", <<127, 128, 0, 0>>),
     Lit("f64", <<255, 240, 0, 0, 0, 0, 0, 0>>), Lit("f64", <<128, 0, 0, 0, 0, 0, 0, 0>>)}

(***************************************************************************)
(* The record of a call                                                    *)
(***************************************************************************)
Call(op, ty, n, cap, before, arg, out, flag, chain) ==
    [op |-> op, ty |-> ty, n |-> n, cap |-> cap, before |-> before, f |-> faults,
     arg |-> arg, ok |-> out.ok, val |-> out.val, err |-> out.err, io |-> out.io,
     flag |-> flag, chain |-> chain]

Done == [ok |-> TRUE, val |-> <<>>, err |-> <<>>, io |-> <<>>]

\* No as_mut view was taken yet: the wrapper in use is its own origin.
NoView(e) == [active |-> FALSE, held |-> e, at |-> 0, taken |-> 0]

\* No with_order! invocation has been made yet.
NoScope ==
    [active |-> FALSE, order |-> "none", branch |-> "none", evals |-> 0,
     ran |-> [E \in {LittleEndian, BigEndian} |-> 0], caps |-> <<>>, results |-> <<>>,
     direct |-> <<>>]

(***************************************************************************)
(* Construction: ByteOrdered::le / be / native / runtime / new over a      *)
(* reader or a writer, or a bare capability next to the endpoint.          *)
(***************************************************************************)
InitOver(endpoints, streams, maxFaults) ==
    /\ target \in {"little", "big"}
    /\ endpoint \in endpoints
    /\ src \in (IF endpoint = "reader" THEN streams ELSE {<<>>})
    /\ pos = 0
    /\ sink = <<>>
    /\ faults = maxFaults
    /\ wrapped \in BOOLEAN
    /\ endianness \in Capabilities
    /\ written = <<>>
    /\ consumed = [bytes |-> 0, clean |-> TRUE]
    /\ scope = NoScope
    /\ view = NoView(endianness)
    /\ last = Call("new", "none", 0, endianness, 0, <<>>, Done, FALSE, <<>>)

Init == InitOver({"reader", "writer"}, CoreStreams, MaxFaults)

(***************************************************************************)
(* Numeric I/O                                                             *)
(***************************************************************************)
Account(out, n) ==
    [bytes |-> IF out.ok THEN consumed.bytes + n ELSE consumed.bytes,
     clean |-> consumed.clean /\ out.ok]

Read(ty) ==
    /\ endpoint = "reader"
    /\ \E out \in (IF wrapped
                   THEN ByteOrdered_read(endianness, ty, src, pos, faults)
                   ELSE Endian_read(endianness, ty, src, pos, faults)) :
          /\ pos' = out.pos
          /\ faults' = out.faults
          /\ consumed' = Account(out, Size(ty))
          /\ last' = Call("read", ty, 1, endianness, pos, <<>>, out, FALSE, <<>>)
    /\ UNCHANGED <<view, target, endpoint, src, sink, wrapped, endianness, written, scope>>

ReadInto(ty, n) ==
    /\ endpoint = "reader"
    /\ \E out \in (IF wrapped
                   THEN ByteOrdered_read_into(endianness, ty, n, src, pos, faults)
                   ELSE Endian_read_into(endianness, ty, n, src, pos, faults)) :
          /\ pos' = out.pos
          /\ faults' = out.faults
          /\ consumed' = Account(out, n * Size(ty))
          /\ last' = Call("read_into", ty, n, endianness, pos, <<>>, out, FALSE, <<>>)
    /\ UNCHANGED <<view, target, endpoint, src, sink, wrapped, endianness, written, scope>>

Write(v) ==
    /\ endpoint = "writer"
    /\ Len(written) < MaxWrites
    /\ \E out \in (IF wrapped
                   THEN ByteOrdered_write(endianness, v, sink, faults)
                   ELSE Endian_write(endianness, v, sink, faults)) :
          /\ sink' = out.sink
          /\ faults' = out.faults
          /\ written' = IF out.ok
                        THEN Append(written, [v |-> v, cap |-> endianness, at |-> Len(sink)])
                        ELSE written
          /\ last' = Call("write", v.ty, 1, endianness, Len(sink), <<v>>,
                          [ok |-> out.ok, val |-> <<>>, err |-> out.err, io |-> out.io],
                          FALSE, <<>>)
    /\ UNCHANGED <<view, target, endpoint, src, pos, wrapped, endianness, consumed, scope>>

(***************************************************************************)
(* Order queries and conversions                                           *)
(***************************************************************************)
NoIo(op, e, flag, chain) ==
    /\ endianness' = e
    /\ last' = Call(op, "none", 0, endianness, 0, <<>>, Done, flag, chain)
    /\ UNCHANGED <<view, target, endpoint, src, pos, sink, faults, wrapped, written, consumed, scope>>

\* ByteOrdered::set_endianness (the new value has the type of the old one, so a
\* static tag can only be replaced by itself).  chain keeps the call made before.
\* Endian::into_opposite on the bare value, ByteOrdered::into_opposite on the
\* wrapper.  chain keeps the capabilities held before the latest (at most two)
\* consecutive calls.
IntoOpposite ==
    LET held == IF last.op = "into_opposite" THEN last.chain ELSE <<>>
        kept == IF Len(held) = 2 THEN Tail(held) ELSE held
    IN NoIo("into_opposite", ByteOrdered_into_opposite(endianness), FALSE, Append(kept, endianness))

IsNative == NoIo("is_native", endianness, is_native(endianness), <<>>)

SetEndianness(e) ==
    /\ wrapped
    /\ e.kind = endianness.kind
    /\ e.kind = "StaticEndianness" => e = endianness
    /\ endianness' = ByteOrdered_set_endianness(endianness, e)
    /\ last' = Call("set_endianness", "none", 0, endianness, pos, <<e>>, Done, FALSE,
                    <<[last EXCEPT !.chain = <<>>]>>)
    /\ UNCHANGED <<view, target, endpoint, src, pos, sink, faults, wrapped, written, consumed, scope>>

IntoEndianness(e) ==
    /\ wrapped
    /\ endianness' = ByteOrdered_into_endianness(endianness, e)
    /\ last' = Call("into_endianness", "none", 0, endianness, pos, <<e>>, Done, FALSE, <<>>)
    /\ UNCHANGED <<view, target, endpoint, src, pos, sink, faults, wrapped, written, consumed, scope>>

IntoLe == wrapped /\ NoIo("into_le", ByteOrdered_into_le(endianness), FALSE, <<>>)

IntoBe == wrapped /\ NoIo("into_be", ByteOrdered_into_be(endianness), FALSE, <<>>)

IntoNative == wrapped /\ NoIo("into_native", ByteOrdered_into_native(endianness), FALSE, <<>>)

Next ==
    \/ \E ty \in Types : Read(ty)
    \/ \E ty \in Types, n \in 0..MaxDst : ReadInto(ty, n)
    \/ \E v \in CoreSamples : Write(v)
    \/ IntoOpposite
    \/ IsNative
    \/ \E e \in Capabilities : SetEndianness(e)
    \/ \E e \in Capabilities : IntoEndianness(e)
    \/ IntoLe
    \/ IntoBe
    \/ IntoNative

Spec == Init /\ [][Next]_vars

(***************************************************************************)
(* Scalar reads over every input stream                                    *)
(***************************************************************************)
InitRead == InitOver({"reader"}, Streams, MaxFaults)

NextRead == \E ty \in Types : Read(ty)

SpecRead == InitRead /\ [][NextRead]_vars

(***************************************************************************)
(* Bulk reads over every input stream                                      *)
(***************************************************************************)
NextBulk == \E ty \in Types, n \in 0..MaxDst : ReadInto(ty, n)

InitBulk == InitOver({"reader"}, {<<>>, <<1, 2, 3>>, <<0, 193, 255, 124>>, TEST_BYTES}, MaxFaults)

SpecBulk == InitBulk /\ [][NextBulk]_vars

(***************************************************************************)
(* Writes of every sample value into an empty sink                         *)
(***************************************************************************)
InitWrite == InitOver({"writer"}, {}, 0)

NextWrite == \E v \in Samples : Write(v)

SpecWrite == InitWrite /\ [][NextWrite]_vars

(***************************************************************************)
(* Reads and writes over a faulty endpoint                                 *)
(***************************************************************************)
NextIo ==
    \/ \E ty \in Types : Read(ty)
    \/ \E v \in CoreSamples : Write(v)

SpecIo == Init /\ [][NextIo]_vars

(***************************************************************************)
(* The capability's own operations, between reads                          *)
(***************************************************************************)
NextOrder ==
    \/ \E ty \in Types : Read(ty)
    \/ IntoOpposite
    \/ IsNative

SpecOrder == Init /\ [][NextOrder]_vars

(***************************************************************************)
(* Vocabulary of the properties                                            *)
(***************************************************************************)
\* The order a capability denotes.
OrderOf(c) == IF c.order \in {LittleEndian, Little} THEN Little ELSE Big

\* The platform's order.
TargetOrder == IF target = "little" THEN Little ELSE Big

\* Byte i (from 0) of the chunk a call started at.
ByteAt(i) == src[last.before + 1 + i]

\* The size-byte chunk of the stream starting at offset from.
ChunkAt(from, size) == SubSeq(src, from + 1, from + size)

swap_bytes(v) == [ty |-> v.ty, d |-> [i \in 0..(Size(v.ty) - 1) |-> v.d[Size(v.ty) - 1 - i]]]

Palindrome(b) == \A k \in 1..Len(b) : b[k] = b[Len(b) + 1 - k]

\* What one numeric read through the handle returns, on a healthy endpoint.
ReadVia(c, ty, data, p) ==
    IF wrapped THEN ByteOrdered_read(c, ty, data, p, 0) ELSE Endian_read(c, ty, data, p, 0)

WriteVia(c, v, out) ==
    IF wrapped THEN ByteOrdered_write(c, v, out, 0) ELSE Endian_write(c, v, out, 0)

RECURSIVE Successive(_, _, _, _, _)
\* The values n successive read_ty calls return from offset p on (all succeeding).
Successive(c, ty, n, data, p) ==
    IF n = 0 THEN <<>>
    ELSE LET r == CHOOSE o \in ReadVia(c, ty, data, p) : TRUE
         IN <<r.val[1]>> \o Successive(c, ty, n - 1, data, r.pos)

RECURSIVE Concat(_)
\* The encodings of the logged writes, in call order.
Concat(log) ==
    IF log = <<>> THEN <<>>
    ELSE LET w == log[1]
         IN (IF OrderOf(w.cap) = Little
             THEN [k \in 1..Size(w.v.ty) |-> w.v.d[k - 1]]
             ELSE [k \in 1..Size(w.v.ty) |-> w.v.d[Size(w.v.ty) - k]]) \o Concat(Tail(log))

C2_RoundTrip ==
    (last.op = "write" /\ last.ok) =>
        \A r \in ReadVia(last.cap, last.ty, sink, last.before) :
            r.ok /\ r.val = last.arg /\ r.pos = Len(sink)

C2_Witness ==
    /\ last.op = "write" /\ last.ok /\ last.before = 0
    /\ last.arg = <<Lit("i128", <<128>> \o Rep(15, 0))>>
    /\ ~wrapped /\ last.cap = Endianness(Little)

(***************************************************************************)
(* C3: the sink holds exactly the concatenation, in call order, of the     *)
(* encodings of the values written, each under the order held at its       *)
(* write; the i16 values 193 then -132 under Big give 00 C1 FF 7C.         *)
(***************************************************************************)
C3_SinkIsConcatenation ==
    (wrapped /\ (last.op = "write" => last.ok)) =>
        /\ sink = Concat(written)
        /\ (/\ Len(written) = 2
            /\ written[1].v.ty = "i16" /\ IntOf(written[1].v) = 193
            /\ written[2].v.ty = "i16" /\ IntOf(written[2].v) = 0 - 132
            /\ OrderOf(written[1].cap) = Big /\ OrderOf(written[2].cap) = Big)
           => sink = <<0, 193, 255, 124>>

C3_Witness ==
    /\ wrapped /\ endianness = StaticEndianness(BigEndian)
    /\ Len(written) = 2
    /\ written[1].v = Int16("i16", 193) /\ written[2].v = Int16("i16", 0 - 132)
    /\ sink = <<0, 193, 255, 124>>

(***************************************************************************)
(* C4: a successful read of a type consumes exactly its size: while no     *)
(* read has failed, the position is the sum of the sizes read, and the     *)
(* read made last decoded exactly the chunk that ends at that position.    *)
(***************************************************************************)
C4_ReadsConsumeExactly ==
    /\ consumed.clean => pos = consumed.bytes
    /\ (last.op = "read" /\ last.ok) =>
          /\ pos = last.before + Size(last.ty)
          /\ consumed.clean => last.before = consumed.bytes - Size(last.ty)
          /\ ChunkAt(last.before, Size(last.ty))
               = [k \in 1..Size(last.ty) |->
                    IF OrderOf(last.cap) = Little
                    THEN last.val[1].d[k - 1]
                    ELSE last.val[1].d[Size(last.ty) - k]]

C4_Witness ==
    /\ last.op = "read" /\ last.ok /\ consumed.clean
    /\ last.ty = "u16" /\ last.before = 6 /\ pos = 8 /\ src = TEST_BYTES

C6_ErrorsAreTheEndpoints ==
    (last.op \in {"read", "write"}) =>
        /\ Len(last.io) = 1
        /\ last.io[1].prim = (IF last.op = "write" THEN "write_all" ELSE "read_exact")
        /\ last.io[1].n = last.n * Size(last.ty)
        /\ last.ok <=> last.io[1].ok
        /\ last.err = last.io[1].err
        /\ last.ok <=> last.err = <<>>

C6_Witness ==
    /\ last.op = "write" /\ ~last.ok
    /\ last.cap = Endianness(Big)
    /\ last.err = <<IoError("Other", "write_all", 1)>>

(***************************************************************************)
(* C7: a bulk read into N elements either succeeds, having consumed        *)
(* N*size bytes and filled dst with what N successive reads would have     *)
(* returned, or fails, and it fails whenever fewer than N*size bytes are   *)
(* left.                                                                   *)
(***************************************************************************)
C7_BulkAllOrNothing ==
    (last.op = "read_into") =>
        /\ last.ok =>
             /\ pos = last.before + last.n * Size(last.ty)
             /\ Len(last.val) = last.n
             /\ last.val = Successive(last.cap, last.ty, last.n, src, last.before)
        /\ Len(src) - last.before < last.n * Size(last.ty) => ~last.ok
        /\ ~last.ok => Len(last.err) = 1

C7_Witness ==
    /\ last.op = "read_into" /\ last.ok /\ last.n = 2 /\ last.ty = "u32"
    /\ src = TEST_BYTES /\ last.before = 0
    /\ last.cap = StaticEndianness(BigEndian)
    /\ last.val = <<Lit("u32", <<18, 52, 86, 120>>), Lit("u32", <<33, 67, 101, 135>>)>>

(***************************************************************************)
(* C8: into_opposite twice gives back the capability: the same value (the  *)
(* same enumerator for Endianness), hence the same outcome for every read  *)
(* and write on the endpoint as it stands, and the same is_native.         *)
(***************************************************************************)
C8_OppositeInvolution ==
    (last.op = "into_opposite" /\ Len(last.chain) = 2) =>
        LET c == last.chain[1]
        IN  /\ endianness = c
            /\ last.cap = into_opposite(c)
            /\ last.cap # c
            /\ \A ty \in Types :
                 Endian_read(endianness, ty, src, pos, faults) = Endian_read(c, ty, src, pos, faults)
            /\ \A v \in CoreSamples :
                 Endian_write(endianness, v, sink, faults) = Endian_write(c, v, sink, faults)
            /\ is_native(endianness) = is_native(c)

C8_Witness ==
    /\ last.op = "into_opposite" /\ Len(last.chain) = 2
    /\ endianness = Endianness(Little) /\ last.cap = Endianness(Big)
    /\ pos = 2

(***************************************************************************)
(* C9: what a multi-byte read returned is the byte swap of what the        *)
(* opposite capability returns for the same bytes, and the two differ      *)
(* exactly when the bytes are not a palindrome.                            *)
(***************************************************************************)
C9_OrderSensitivity ==
    (last.op = "read" /\ last.ok) =>
        \A r \in ReadVia(into_opposite(last.cap), last.ty, src, last.before) :
            /\ r.ok
            /\ r.val[1] = swap_bytes(last.val[1])
            /\ OrderOf(into_opposite(last.cap)) # OrderOf(last.cap)
            /\ (r.val[1] # last.val[1]) <=> ~Palindrome(ChunkAt(last.before, Size(last.ty)))

C9_Witness ==
    /\ last.op = "read" /\ last.ok /\ last.ty = "i32"
    /\ src = <<1, 2, 3, 4>>
    /\ last.cap = StaticEndianness(LittleEndian)
    /\ last.val[1] = Lit("i32", <<4, 3, 2, 1>>)

(***************************************************************************)
(* C10: is_native is true exactly for the capability whose order is the    *)
(* platform's: of a capability and its opposite exactly one is native,     *)
(* the native tag is native, and Endianness::native() is the target's      *)
(* order.                                                                  *)
(***************************************************************************)
C10_NativeCorrectness ==
    /\ last.op = "is_native" => (last.flag <=> OrderOf(last.cap) = TargetOrder)
    /\ \A c \in Capabilities :
          /\ is_native(c) <=> OrderOf(c) = TargetOrder
          /\ is_native(c) # is_native(into_opposite(c))
    /\ is_native(StaticEndianness(NativeEndian))
    /\ native = TargetOrder
    /\ target = "little" =>
          /\ is_native(Endianness(Little)) /\ is_native(StaticEndianness(LittleEndian))
          /\ ~is_native(Endianness(Big)) /\ ~is_native(StaticEndianness(BigEndian))

C10_Witness ==
    /\ last.op = "is_native" /\ ~last.flag
    /\ target = "big" /\ last.cap = StaticEndianness(LittleEndian)

(***************************************************************************)
(* Wrappers of both providers over the same endpoints: scalar reads, bulk  *)
(* reads and writes in any sequence                                        *)
(***************************************************************************)
InitProviders ==
    /\ InitOver({"reader", "writer"}, {<<>>, <<1, 2, 3>>, <<0, 193, 255, 124>>}, MaxFaults)
    /\ wrapped
    /\ endianness \in {ByteOrdered_le, ByteOrdered_be, ByteOrdered_runtime(Little), ByteOrdered_runtime(Big)}

NextProviders ==
    \/ \E ty \in Types : Read(ty)
    \/ \E ty \in Types, n \in 0..MaxDst : ReadInto(ty, n)
    \/ \E v \in CoreSamples : Write(v)

SpecProviders == InitProviders /\ [][NextProviders]_vars

\* The read outcome t is what the last call returned and left behind.
SameRead(t) ==
    /\ t.ok = last.ok /\ t.val = last.val /\ t.err = last.err
    /\ t.pos = pos /\ t.faults = faults

\* The write outcome t is what the last call returned and left behind.
SameWrite(t) ==
    /\ t.ok = last.ok /\ t.err = last.err
    /\ t.sink = sink /\ t.faults = faults

\* The wrapper of the other provider for the same order.
OtherProvider(c) ==
    IF c.kind = "StaticEndianness"
    THEN ByteOrdered_runtime(OrderOf(c))
    ELSE IF c.order = Little THEN ByteOrdered_le ELSE ByteOrdered_be

(***************************************************************************)
(* C11: a wrapper made by ByteOrdered::le / be and one made by             *)
(* ByteOrdered::runtime with the same order behave alike.  Along every     *)
(* sequence of scalar reads, bulk reads and writes, through a wrapper of   *)
(* either kind, the call just made returned (value, success or error) and  *)
(* left behind (endpoint position, contents) what the wrapper of the other *)
(* kind gives for the same call on the same endpoint.                      *)
(***************************************************************************)
C11_ProvidersAgree ==
    LET o == OtherProvider(last.cap)
    IN  /\ o.kind # last.cap.kind /\ OrderOf(o) = OrderOf(last.cap)
        /\ last.op = "read" =>
              \E t \in ByteOrdered_read(o, last.ty, src, last.before, last.f) : SameRead(t)
        /\ last.op = "read_into" =>
              \E t \in ByteOrdered_read_into(o, last.ty, last.n, src, last.before, last.f) : SameRead(t)
        /\ last.op = "write" =>
              \E t \in ByteOrdered_write(o, last.arg[1], SubSeq(sink, 1, last.before), last.f) :
                  SameWrite(t)

C11_Witness ==
    /\ last.op = "read_into" /\ last.ok /\ last.n = 2 /\ last.ty = "u16"
    /\ src = <<0, 193, 255, 124>> /\ last.before = 0 /\ pos = 4
    /\ last.cap = ByteOrdered_runtime(Little)
    /\ last.val = <<Lit("u16", <<193, 0>>), Lit("u16", <<124, 255>>)>>

(***************************************************************************)
(* with_order!(endpoints, order, |wrappers| block): the order expression   *)
(* is evaluated once and matched; the arm taken binds one                  *)
(* ByteOrdered<_, StaticEndianness<E>> per endpoint and runs the block.    *)
(* The block is a sequence of numeric reads and writes on those wrappers;  *)
(* a write may be of a constant or of the value just read plus a constant. *)
(***************************************************************************)
MaxBlock == 2   \* numeric operations per block

\* As with_order_branch, with the two arms exchanged.
with_order_branch_swapped(e) == IF e = Little THEN BigEndian ELSE LittleEndian

\* The arm of the match the order value selects.
with_order_branch(e) == IF e = Little THEN LittleEndian ELSE BigEndian

\* The wrapper an arm binds to each of its endpoints.
with_order_wrapper(E) == ByteOrdered_new(StaticEndianness(E))

\* The endpoints handed to the construct: one, or a tuple.
Ends == IF endpoint = "pipe" THEN {"reader", "writer"} ELSE {endpoint}

\* What one operation of a block returned.
Outcome(op, ty, r, val) == [op |-> op, ty |-> ty, ok |-> r.ok, val |-> val, err |-> r.err]

\* The value a block's write passes: a constant, or the u16 just read plus d.
Operand(w, results) ==
    IF w.op = "write" THEN w.v
    ELSE Int16("u16", IntOf(results[Len(results)].val[1]) + w.d)

\* A write of "the value just read plus d" needs a u16 just read, and no overflow.
HasOperand(w, results) ==
    IF w.op = "write" THEN TRUE
    ELSE /\ results # <<>>
         /\ LET r == results[Len(results)]
            IN r.op = "read" /\ r.ok /\ r.ty = "u16" /\ IntOf(r.val[1]) + w.d < 65536

\* The same operation through ByteOrdered::runtime(endpoint, order), on an
\* endpoint that answers as it answered the block (the same primitive outcome).
DirectRead(d, ty, io) ==
    LET ts == {t \in ByteOrdered_read(d.cap, ty, src, d.pos, d.faults) : t.io = io}
    IN  IF d.agree /\ ts # {}
        THEN LET t == CHOOSE t \in ts : TRUE
             IN [d EXCEPT !.pos = t.pos, !.faults = t.faults,
                          !.results = Append(@, Outcome("read", ty, t, t.val))]
        ELSE [d EXCEPT !.agree = FALSE]

DirectWrite(d, w, io) ==
    IF d.agree /\ HasOperand(w, d.results)
    THEN LET ts == {t \in ByteOrdered_write(d.cap, Operand(w, d.results), d.sink, d.faults) : t.io = io}
         IN  IF ts # {}
             THEN LET t == CHOOSE t \in ts : TRUE
                  IN [d EXCEPT !.sink = t.sink, !.faults = t.faults,
                               !.results = Append(@, Outcome("write", Operand(w, d.results).ty, t, <<>>))]
             ELSE [d EXCEPT !.agree = FALSE]
    ELSE [d EXCEPT !.agree = FALSE]

WithOrder(e) ==
    /\ ~scope.active
    /\ LET E == with_order_branch(e)
       IN scope' = [active |-> TRUE, order |-> e, branch |-> E, evals |-> 1,
                    ran |-> [X \in {LittleEndian, BigEndian} |-> IF X = E THEN 1 ELSE 0],
                    caps |-> [x \in Ends |-> with_order_wrapper(E)],
                    results |-> <<>>, used |-> <<>>,
                    direct |-> [cap |-> ByteOrdered_runtime(e), pos |-> pos, sink |-> sink,
                                faults |-> faults, results |-> <<>>, agree |-> TRUE]]
    /\ last' = Call("with_order", "none", 0, Endianness(e), pos, <<>>, Done, FALSE, <<>>)
    /\ UNCHANGED <<view, target, endpoint, src, pos, sink, faults, wrapped, endianness, written, consumed>>

ScopeRead(ty) ==
    /\ scope.active
    /\ "reader" \in Ends
    /\ Len(scope.results) < MaxBlock
    /\ LET cap == scope.caps["reader"]
       IN \E out \in ByteOrdered_read(cap, ty, src, pos, faults) :
             /\ pos' = out.pos
             /\ faults' = out.faults
             /\ consumed' = Account(out, Size(ty))
             /\ scope' = [scope EXCEPT !.results = Append(@, Outcome("read", ty, out, out.val)),
                                       !.used = Append(@, cap),
                                       !.direct = DirectRead(@, ty, out.io)]
             /\ last' = Call("read", ty, 1, cap, pos, <<>>, out, FALSE, <<>>)
    /\ UNCHANGED <<view, target, endpoint, src, sink, wrapped, endianness, written>>

ScopeWrite(w) ==
    /\ scope.active
    /\ "writer" \in Ends
    /\ Len(scope.results) < MaxBlock
    /\ Len(written) < MaxWrites
    /\ HasOperand(w, scope.results)
    /\ LET cap == scope.caps["writer"]
           v == Operand(w, scope.results)
       IN \E out \in ByteOrdered_write(cap, v, sink, faults) :
             /\ sink' = out.sink
             /\ faults' = out.faults
             /\ written' = IF out.ok
                           THEN Append(written, [v |-> v, cap |-> cap, at |-> Len(sink), w |-> w,
                                                 from |-> consumed.bytes])
                           ELSE written
             /\ scope' = [scope EXCEPT !.results = Append(@, Outcome("write", v.ty, out, <<>>)),
                                       !.used = Append(@, cap),
                                       !.direct = DirectWrite(@, w, out.io)]
             /\ last' = Call("write", v.ty, 1, cap, Len(sink), <<v>>,
                             [ok |-> out.ok, val |-> <<>>, err |-> out.err, io |-> out.io],
                             FALSE, <<>>)
    /\ UNCHANGED <<view, target, endpoint, src, pos, wrapped, endianness, consumed>>

\* The block ends; its result is what its operations returned.
WithOrderEnd ==
    /\ scope.active
    /\ scope' = [scope EXCEPT !.active = FALSE]
    /\ last' = Call("with_order_end", "none", 0, Endianness(scope.order), pos, <<>>,
                    [ok |-> TRUE, val |-> scope.results, err |-> <<>>, io |-> <<>>], FALSE, <<>>)
    /\ UNCHANGED <<view, target, endpoint, src, pos, sink, faults, wrapped, endianness, written, consumed>>

ScopeTypes == {"u16", "u32", "f64"}

BlockWrites ==
    {[op |-> "write", v |-> Int16("u16", 523)],
     [op |-> "write_plus", d |-> 10], [op |-> "write_plus", d |-> 100]}

InitScope ==
    /\ target \in {"little", "big"}
    /\ endpoint \in {"reader", "pipe"}
    /\ src \in (IF endpoint = "pipe" THEN {<<1, 2, 3, 4>>} ELSE {<<16, 1>>, <<1, 2, 1, 2>>, <<1, 2, 3, 4>>})
    /\ pos = 0
    /\ sink = <<>>
    /\ faults = 0
    /\ wrapped = FALSE
    /\ endianness = Endianness(native)
    /\ written = <<>>
    /\ consumed = [bytes |-> 0, clean |-> TRUE]
    /\ scope = NoScope
    /\ view = NoView(endianness)
    /\ last = Call("new", "none", 0, endianness, 0, <<>>, Done, FALSE, <<>>)

NextScope ==
    \/ \E b \in BOOLEAN : WithOrder(le_iff(b))
    \/ \E ty \in ScopeTypes : ScopeRead(ty)
    \/ \E w \in BlockWrites : ScopeWrite(w)
    \/ WithOrderEnd

SpecScope == InitScope /\ [][NextScope]_vars

(***************************************************************************)
(* C12: a block run by with_order! gives the result, and leaves the        *)
(* endpoints with the contents and positions, that the same operations     *)
(* give through a ByteOrdered::runtime wrapper of the same order value.    *)
(***************************************************************************)
C12_ScopedEquivalence ==
    scope.order # "none" =>
        /\ scope.direct.agree
        /\ scope.direct.cap = ByteOrdered_runtime(scope.order)
        /\ scope.direct.results = scope.results
        /\ scope.direct.pos = pos
        /\ scope.direct.sink = sink
        /\ scope.direct.faults = faults

C12_Witness ==
    /\ last.op = "with_order_end" /\ scope.order = Little
    /\ src = <<1, 2, 1, 2>> /\ pos = 2
    /\ scope.results = <<Outcome("read", "u16", Done, <<Int16("u16", 513)>>)>>
    /\ scope.direct.results = scope.results

(***************************************************************************)
(* C13: in an invocation of with_order! the order is evaluated once,       *)
(* before any operation of the block; exactly one arm runs, once, and it   *)
(* is the LittleEndian arm exactly when the order value is Little; every   *)
(* operation of the block goes through a wrapper of that order and reads   *)
(* the bytes in that order.                                                *)
(***************************************************************************)
C13_OneBranch ==
    scope.order # "none" =>
        /\ scope.evals = 1
        /\ scope.ran[LittleEndian] + scope.ran[BigEndian] = 1
        /\ scope.ran[LittleEndian] = 1 <=> scope.order = Little
        /\ scope.ran[scope.branch] = 1
        /\ last.op = "with_order" => scope.results = <<>> /\ last.cap = Endianness(scope.order)
        /\ Len(scope.used) = Len(scope.results)
        /\ \A i \in 1..Len(scope.used) :
              /\ scope.used[i] = StaticEndianness(scope.branch)
              /\ OrderOf(scope.used[i]) = scope.order
        /\ (scope.active /\ last.op = "read" /\ last.ok) =>
              \A i \in 0..(Size(last.ty) - 1) :
                  last.val[1].d[i] = IF scope.order = Little THEN ByteAt(i)
                                     ELSE ByteAt(Size(last.ty) - 1 - i)

C13_Witness ==
    /\ scope.active /\ scope.order = Big
    /\ scope.ran[BigEndian] = 1 /\ scope.ran[LittleEndian] = 0
    /\ Len(scope.results) = 2
    /\ last.op = "read" /\ last.ok /\ last.ty = "u16" /\ last.before = 2
    /\ src = <<1, 2, 1, 2>> /\ last.val[1] = Int16("u16", 258)

\* The u16 that ends at offset upto of the source, in the order o.
U16Before(upto, o) ==
    IF o = Little THEN src[upto - 1] + 256 * src[upto] ELSE src[upto] + 256 * src[upto - 1]

(***************************************************************************)
(* C14: given a tuple of endpoints, every wrapper of the block has the     *)
(* resolved order, and a scope carries on where the one before it left     *)
(* the endpoints: the reads of successive scopes are contiguous, the sink  *)
(* is the concatenation of all their writes, and each written "value read  *)
(* plus d" is the u16 just before the reader's position plus d.  With      *)
(* source 01 02 03 04, a Little scope that reads a u16 and writes it plus  *)
(* 10, then a Big scope that reads a u16 and writes it plus 100, leave the *)
(* sink 0B 02 03 68.                                                       *)
(***************************************************************************)
C14_TupleScopes ==
    /\ scope.order # "none" =>
          /\ DOMAIN scope.caps = Ends
          /\ \A x \in DOMAIN scope.caps :
                /\ scope.caps[x].kind = "StaticEndianness"
                /\ OrderOf(scope.caps[x]) = scope.order
    /\ consumed.clean => pos = consumed.bytes
    /\ sink = Concat(written)
    /\ \A i \in 1..Len(written) :
          (written[i].w.op = "write_plus" /\ consumed.clean) =>
              IntOf(written[i].v) = U16Before(written[i].from, OrderOf(written[i].cap)) + written[i].w.d
    /\ ( /\ endpoint = "pipe" /\ src = <<1, 2, 3, 4>> /\ Len(written) = 2
         /\ written[1].w = [op |-> "write_plus", d |-> 10]
         /\ OrderOf(written[1].cap) = Little /\ written[1].from = 2
         /\ written[2].w = [op |-> "write_plus", d |-> 100]
         /\ OrderOf(written[2].cap) = Big /\ written[2].from = 4 )
       => sink = <<11, 2, 3, 104>>

C14_Witness ==
    /\ endpoint = "pipe" /\ src = <<1, 2, 3, 4>> /\ pos = 4
    /\ last.op = "with_order_end" /\ scope.order = Big
    /\ Len(written) = 2
    /\ written[1].w = [op |-> "write_plus", d |-> 10] /\ OrderOf(written[1].cap) = Little
    /\ written[2].w = [op |-> "write_plus", d |-> 100] /\ OrderOf(written[2].cap) = Big
    /\ sink = <<11, 2, 3, 104>>

(***************************************************************************)
(* Wrappers whose order is replaced between numeric reads and writes       *)
(***************************************************************************)
InitReorder ==
    /\ InitOver({"reader", "writer"}, {<<1, 2, 3, 4>>, TEST_BYTES}, 0)
    /\ wrapped

NextReorder ==
    \/ \E ty \in Types : Read(ty)
    \/ \E v \in CoreSamples : Write(v)
    \/ \E e \in Capabilities : SetEndianness(e)

SpecReorder == InitReorder /\ [][NextReorder]_vars

\* The bytes of v in the order o.
Encoding(v, o) == [k \in 1..Size(v.ty) |-> IF o = Little THEN v.d[k - 1] ELSE v.d[Size(v.ty) - k]]

\* The value of type ty that the bytes from offset p on denote in the order o.
Decoding(ty, p, o) ==
    [ty |-> ty,
     d |-> [i \in 0..(Size(ty) - 1) |-> IF o = Little THEN src[p + 1 + i] ELSE src[p + Size(ty) - i]]]

(***************************************************************************)
(* C15: set_endianness only replaces the held order.  It does no I/O and   *)
(* leaves the endpoint's position and the bytes consumed or produced as    *)
(* they were; the call made before it keeps the result it returned; every  *)
(* numeric read or write made afterwards goes by the order then held.      *)
(* Over 12 34 56 78 21 43 65 87: read_u32 under Little, set_endianness     *)
(* (Big), read_u32 give 0x78563412 and then 0x21436587.                    *)
(***************************************************************************)
C15_SetEndianness ==
    /\ [](last.op = "set_endianness" =>
            /\ endianness = last.arg[1]
            /\ last.ok /\ last.io = <<>> /\ last.err = <<>>
            /\ pos = last.before
            /\ consumed.clean => pos = consumed.bytes
            /\ faults = last.f)
    /\ [][last'.op = "set_endianness" =>
            /\ UNCHANGED <<src, pos, sink, faults, written, consumed>>
            /\ last'.chain = <<[last EXCEPT !.chain = <<>>]>>]_vars
    /\ [][(last'.op = "read" /\ last'.ok) =>
            /\ last'.cap = endianness
            /\ last'.val[1] = Decoding(last'.ty, pos, OrderOf(endianness))]_vars
    /\ [][(last'.op = "write" /\ last'.ok) =>
            /\ last'.cap = endianness
            /\ sink' = sink \o Encoding(last'.arg[1], OrderOf(endianness))]_vars
    /\ [][( /\ src = TEST_BYTES
            /\ last.op = "set_endianness" /\ last.arg = <<Endianness(Big)>>
            /\ last.chain[1].op = "read" /\ last.chain[1].ok /\ last.chain[1].ty = "u32"
            /\ last.chain[1].cap = Endianness(Little) /\ last.chain[1].before = 0
            /\ last'.op = "read" /\ last'.ty = "u32" /\ last'.ok ) =>
            /\ last.chain[1].val[1] = Lit("u32", <<120, 86, 52, 18>>)
            /\ last'.val[1] = Lit("u32", <<33, 67, 101, 135>>)]_vars

C15_Witness ==
    /\ src = TEST_BYTES /\ pos = 4
    /\ last.op = "set_endianness" /\ last.arg = <<Endianness(Big)>>
    /\ endianness = Endianness(Big)
    /\ last.chain[1].op = "read" /\ last.chain[1].ty = "u32" /\ last.chain[1].before = 0
    /\ last.chain[1].cap = Endianness(Little)
    /\ last.chain[1].val[1] = Lit("u32", <<120, 86, 52, 18>>)

(***************************************************************************)
(* Raw I/O.  The endpoint's own std::io methods (external), each the set   *)
(* of outcomes an endpoint may produce: a read or a write may transfer     *)
(* fewer bytes than asked, and any call but consume may hit a device       *)
(* fault, which transfers nothing.                                         *)
(***************************************************************************)
MaxRaw == 2   \* largest buffer of a raw read, largest consume

RawFault(prim, n, at, f) ==
    {[ok |-> FALSE, val |-> <<>>, err |-> <<IoError("Other", prim, at)>>, faults |-> f - 1,
      io |-> <<[prim |-> prim, n |-> n, ok |-> FALSE, err |-> <<IoError("Other", prim, at)>>]>>]
        : x \in IF f > 0 THEN {0} ELSE {}}

RawOk(prim, n, val, f) ==
    [ok |-> TRUE, val |-> val, err |-> <<>>, faults |-> f,
     io |-> <<[prim |-> prim, n |-> n, ok |-> TRUE, err |-> <<>>]>>]

\* An outcome on a reader, with the position it leaves.
At(r, p) == [ok |-> r.ok, val |-> r.val, err |-> r.err, faults |-> r.faults, io |-> r.io, pos |-> p]

\* An outcome on a writer, with the contents it leaves.
Into(r, out) == [ok |-> r.ok, val |-> r.val, err |-> r.err, faults |-> r.faults, io |-> r.io, sink |-> out]

Read_read(data, p, n, f) ==
    LET full == Min(n, Len(data) - p)
    IN  {At(RawOk("read", n, <<SubSeq(data, p + 1, p + k)>>, f), p + k) : k \in {full, Min(1, full)}}
        \cup {At(r, p) : r \in RawFault("read", n, p, f)}

Read_read_exact(data, p, n, f) ==
    {[ok |-> r.ok, val |-> IF r.ok THEN <<r.buf>> ELSE <<>>, err |-> r.err, faults |-> r.faults,
      io |-> <<IoCall("read_exact", n, r)>>, pos |-> r.pos] : r \in read_exact(data, p, n, f)}

Read_read_to_end(data, p, f) ==
    {At(RawOk("read_to_end", 0, <<SubSeq(data, p + 1, Len(data))>>, f), Len(data))}
    \cup {At(r, p) : r \in RawFault("read_to_end", 0, p, f)}

BufRead_fill_buf(data, p, f) ==
    {At(RawOk("fill_buf", 0, <<SubSeq(data, p + 1, Len(data))>>, f), p)}
    \cup {At(r, p) : r \in RawFault("fill_buf", 0, p, f)}

BufRead_consume(data, p, amt, f) == {At(RawOk("consume", amt, <<>>, f), p + amt)}

\* seek(SeekFrom::Start(to))
Seek_seek(data, p, to, f) ==
    {At(RawOk("seek", to, <<to>>, f), to)} \cup {At(r, p) : r \in RawFault("seek", to, p, f)}

Write_write(out, bytes, f) ==
    {Into(RawOk("write", Len(bytes), <<k>>, f), out \o SubSeq(bytes, 1, k))
        : k \in {Len(bytes), Min(1, Len(bytes))}}
    \cup {Into(r, out) : r \in RawFault("write", Len(bytes), Len(out), f)}

Write_write_all(out, bytes, f) ==
    {[ok |-> r.ok, val |-> <<>>, err |-> r.err, faults |-> r.faults,
      io |-> <<IoCall("write_all", Len(bytes), r)>>, sink |-> r.sink] : r \in write_all(out, bytes, f)}

Write_flush(out, f) ==
    {Into(RawOk("flush", 0, <<>>, f), out)} \cup {Into(r, out) : r \in RawFault("flush", 0, Len(out), f)}

\* The endpoint's method m, with argument n (a length, an amount, an offset).
ReaderMethods == {"read", "read_exact", "read_to_end", "fill_buf", "consume", "seek"}

WriterMethods == {"write", "write_all", "flush"}

Endpoint_in(m, data, p, n, f) ==
    CASE m = "read" -> Read_read(data, p, n, f)
      [] m = "read_exact" -> Read_read_exact(data, p, n, f)
      [] m = "read_to_end" -> Read_read_to_end(data, p, f)
      [] m = "fill_buf" -> BufRead_fill_buf(data, p, f)
      [] m = "consume" -> BufRead_consume(data, p, n, f)
      [] m = "seek" -> Seek_seek(data, p, n, f)

Endpoint_out(m, out, bytes, f) ==
    CASE m = "write" -> Write_write(out, bytes, f)
      [] m = "write_all" -> Write_write_all(out, bytes, f)
      [] m = "flush" -> Write_flush(out, f)

(***************************************************************************)
(* wrap.rs: impl Read, Write, BufRead and Seek for ByteOrdered, each       *)
(* method handing the call to self.inner                                   *)
(***************************************************************************)
\* As ByteOrdered_io_read, but through a buffer filled one byte ahead of the caller.
ByteOrdered_io_read_ahead(self_endianness, inner, p, n, f) ==
    {[r EXCEPT !.pos = Min(r.pos + 1, Len(inner))] : r \in Read_read(inner, p, n, f)}

ByteOrdered_io_read(self_endianness, inner, p, n, f) == Read_read(inner, p, n, f)

ByteOrdered_io_read_exact(self_endianness, inner, p, n, f) == Read_read_exact(inner, p, n, f)

ByteOrdered_io_read_to_end(self_endianness, inner, p, f) == Read_read_to_end(inner, p, f)

ByteOrdered_fill_buf(self_endianness, inner, p, f) == BufRead_fill_buf(inner, p, f)

ByteOrdered_consume(self_endianness, inner, p, amt, f) == BufRead_consume(inner, p, amt, f)

\* As ByteOrdered_seek, but seeking the inner endpoint to its start.
ByteOrdered_seek_rewind(self_endianness, inner, p, to, f) == Seek_seek(inner, p, 0, f)

ByteOrdered_seek(self_endianness, inner, p, to, f) == Seek_seek(inner, p, to, f)

ByteOrdered_io_write(self_endianness, inner, buf, f) == Write_write(inner, buf, f)

ByteOrdered_io_write_all(self_endianness, inner, buf, f) == Write_write_all(inner, buf, f)

ByteOrdered_flush(self_endianness, inner, f) == Write_flush(inner, f)

ByteOrdered_in(self_endianness, m, inner, p, n, f) ==
    CASE m = "read" -> ByteOrdered_io_read(self_endianness, inner, p, n, f)
      [] m = "read_exact" -> ByteOrdered_io_read_exact(self_endianness, inner, p, n, f)
      [] m = "read_to_end" -> ByteOrdered_io_read_to_end(self_endianness, inner, p, f)
      [] m = "fill_buf" -> ByteOrdered_fill_buf(self_endianness, inner, p, f)
      [] m = "consume" -> ByteOrdered_consume(self_endianness, inner, p, n, f)
      [] m = "seek" -> ByteOrdered_seek(self_endianness, inner, p, n, f)

ByteOrdered_out(self_endianness, m, inner, buf, f) ==
    CASE m = "write" -> ByteOrdered_io_write(self_endianness, inner, buf, f)
      [] m = "write_all" -> ByteOrdered_io_write_all(self_endianness, inner, buf, f)
      [] m = "flush" -> ByteOrdered_flush(self_endianness, inner, f)

\* Bytes the caller has taken from the reader through a raw call.
Taken(m, n, out) ==
    IF ~out.ok THEN 0
    ELSE CASE m \in {"read", "read_exact", "read_to_end"} -> Len(out.val[1])
           [] m = "consume" -> n
           [] OTHER -> 0

\* A raw call on the reader, through the wrapper or on the bare endpoint.  A
\* consume is of no more than fill_buf shows; a seek is to an offset of the source.
RawIn(m, n) ==
    /\ endpoint = "reader"
    /\ n <= Len(src) - pos \/ m \notin {"consume"}
    /\ n <= Len(src) \/ m # "seek"
    /\ n = 0 \/ m \notin {"read_to_end", "fill_buf"}
    /\ \E out \in (IF wrapped
                   THEN ByteOrdered_in(endianness, m, src, pos, n, faults)
                   ELSE Endpoint_in(m, src, pos, n, faults)) :
          /\ pos' = out.pos
          /\ faults' = out.faults
          /\ consumed' = [bytes |-> IF consumed.clean /\ m # "seek"
                                     THEN consumed.bytes + Taken(m, n, out)
                                     ELSE consumed.bytes,
                          clean |-> consumed.clean /\ out.ok /\ m # "seek"]
          /\ last' = Call(m, "none", n, endianness, pos, <<>>, out, wrapped, <<>>)
    /\ UNCHANGED <<view, target, endpoint, src, sink, wrapped, endianness, written, scope>>

RawChunks == {<<>>, <<7>>, <<1, 2>>}

\* A raw call on the writer.  flush takes no bytes.  The sink holds MaxRaw + 1 bytes.
RawOut(m, buf) ==
    /\ endpoint = "writer"
    /\ buf = <<>> \/ m # "flush"
    /\ Len(sink) + Len(buf) <= MaxRaw + 1
    /\ \E out \in (IF wrapped
                   THEN ByteOrdered_out(endianness, m, sink, buf, faults)
                   ELSE Endpoint_out(m, sink, buf, faults)) :
          /\ sink' = out.sink
          /\ faults' = out.faults
          /\ last' = Call(m, "none", Len(buf), endianness, Len(sink), <<buf>>, out, wrapped, <<>>)
    /\ UNCHANGED <<view, target, endpoint, src, pos, wrapped, endianness, written, consumed, scope>>

InitRaw == InitOver({"reader", "writer"}, {<<>>, <<1, 2, 3>>, <<0, 193, 255, 124>>}, MaxFaults)

NextRaw ==
    \/ \E m \in ReaderMethods, n \in 0..MaxRaw : RawIn(m, n)
    \/ \E m \in WriterMethods, buf \in RawChunks : RawOut(m, buf)

SpecRaw == InitRaw /\ [][NextRaw]_vars

(***************************************************************************)
(* C16: read, read_exact, read_to_end, fill_buf, consume, seek, write,     *)
(* write_all and flush through the wrapper return what the same call on    *)
(* the bare endpoint returns and leave the endpoint as that call leaves    *)
(* it, whichever order the wrapper holds; the held order stays as it was.  *)
(***************************************************************************)
C16_RawPassThrough ==
    (wrapped /\ last.op \in ReaderMethods \cup WriterMethods) =>
        /\ endianness = last.cap
        /\ last.op \in ReaderMethods =>
              /\ \E t \in Endpoint_in(last.op, src, last.before, last.n, last.f) :
                    SameRead(t) /\ t.io = last.io
              /\ \A c \in Capabilities :
                    ByteOrdered_in(c, last.op, src, last.before, last.n, last.f)
                      = Endpoint_in(last.op, src, last.before, last.n, last.f)
        /\ last.op \in WriterMethods =>
              /\ \E t \in Endpoint_out(last.op, SubSeq(sink, 1, last.before), last.arg[1], last.f) :
                    SameWrite(t) /\ t.val = last.val /\ t.io = last.io
              /\ \A c \in Capabilities :
                    ByteOrdered_out(c, last.op, SubSeq(sink, 1, last.before), last.arg[1], last.f)
                      = Endpoint_out(last.op, SubSeq(sink, 1, last.before), last.arg[1], last.f)

C16_Witness ==
    /\ wrapped /\ last.op = "seek" /\ last.ok /\ last.n = 2 /\ last.before = 3
    /\ src = <<0, 193, 255, 124>> /\ pos = 2 /\ last.val = <<2>>
    /\ endianness = Endianness(Big)

(***************************************************************************)
(* wrap.rs: read_i8 / read_u8 are byteorder's ReadBytesExt::read_i8 /      *)
(* read_u8 applied to the wrapper itself (one read_exact of one byte       *)
(* through its Read impl); write_i8 / write_u8 are WriteBytesExt's on      *)
(* self.inner (one write_all of one byte).                                 *)
(***************************************************************************)
\* As ByteOrdered_read_u8, but taking the low byte of a u16 read in the held order.
ByteOrdered_read_u8_wide(self_endianness, ty, inner, p, f) ==
    {[ok |-> r.ok,
      val |-> IF r.ok THEN <<[ty |-> ty, d |-> [i \in 0..0 |-> r.val[1].d[0]]]>> ELSE <<>>,
      err |-> r.err, pos |-> r.pos, faults |-> r.faults, io |-> r.io]
        : r \in Endian_read(self_endianness, "u16", inner, p, f)}

ByteOrdered_read_u8(self_endianness, ty, inner, p, f) ==
    {[ok |-> r.ok,
      val |-> IF r.ok THEN <<[ty |-> ty, d |-> [i \in 0..0 |-> r.val[1][1]]]>> ELSE <<>>,
      err |-> r.err, pos |-> r.pos, faults |-> r.faults, io |-> r.io]
        : r \in ByteOrdered_io_read_exact(self_endianness, inner, p, 1, f)}

ByteOrdered_write_u8(self_endianness, v, inner, f) ==
    {[ok |-> r.ok, err |-> r.err, sink |-> r.sink, faults |-> r.faults,
      io |-> <<IoCall("write_all", 1, r)>>] : r \in write_all(inner, <<v.d[0]>>, f)}

ReadByte(ty) ==
    /\ endpoint = "reader"
    /\ wrapped
    /\ \E out \in ByteOrdered_read_u8(endianness, ty, src, pos, faults) :
          /\ pos' = out.pos
          /\ faults' = out.faults
          /\ consumed' = Account(out, 1)
          /\ last' = Call("read", ty, 1, endianness, pos, <<>>, out, FALSE, <<>>)
    /\ UNCHANGED <<view, target, endpoint, src, sink, wrapped, endianness, written, scope>>

WriteByte(v) ==
    /\ endpoint = "writer"
    /\ wrapped
    /\ Len(written) < MaxWrites
    /\ \E out \in ByteOrdered_write_u8(endianness, v, sink, faults) :
          /\ sink' = out.sink
          /\ faults' = out.faults
          /\ written' = IF out.ok
                        THEN Append(written, [v |-> v, cap |-> endianness, at |-> Len(sink)])
                        ELSE written
          /\ last' = Call("write", v.ty, 1, endianness, Len(sink), <<v>>,
                          [ok |-> out.ok, val |-> <<>>, err |-> out.err, io |-> out.io],
                          FALSE, <<>>)
    /\ UNCHANGED <<view, target, endpoint, src, pos, wrapped, endianness, consumed, scope>>

ByteSamples == {Int8("i8", 0), Int8("i8", 0 - 1), Int8("i8", 0 - 128), Int8("i8", 127), Int8("u8", 255), Int8("u8", 5)}

InitBytes ==
    /\ InitOver({"reader", "writer"}, {<<>>, <<2, 5>>, <<0, 193, 255, 124>>}, MaxFaults)
    /\ wrapped

NextBytes ==
    \/ \E ty \in ByteTypes : ReadByte(ty)
    \/ \E v \in ByteSamples : WriteByte(v)
    \/ IntoOpposite

SpecBytes == InitBytes /\ [][NextBytes]_vars

\* The integer an 8-bit value denotes.
IntOf8(v) == IF v.ty = "i8" /\ v.d[0] >= 128 THEN v.d[0] - 256 ELSE v.d[0]

(***************************************************************************)
(* C17: read_i8 / read_u8 / write_i8 / write_u8 through a wrapper do the   *)
(* same whichever order it holds: the value is the next byte of the stream *)
(* (in two's complement for i8), exactly one byte is consumed or produced, *)
(* and every other capability gives the same outcomes, endpoint included.  *)
(***************************************************************************)
C17_SingleByte ==
    /\ (last.op = "read" /\ last.ty \in ByteTypes) =>
          /\ last.ok =>
                /\ pos = last.before + 1
                /\ last.val[1].d[0] = src[pos]
                /\ IntOf8(last.val[1]) = (IF last.ty = "i8" /\ src[pos] >= 128 THEN src[pos] - 256 ELSE src[pos])
          /\ \A c \in Capabilities :
                /\ ByteOrdered_read_u8(c, last.ty, src, last.before, last.f)
                     = ByteOrdered_read_u8(last.cap, last.ty, src, last.before, last.f)
                /\ \E t \in ByteOrdered_read_u8(c, last.ty, src, last.before, last.f) : SameRead(t)
    /\ (last.op = "write" /\ last.ty \in ByteTypes) =>
          /\ last.ok => sink = SubSeq(sink, 1, last.before) \o <<last.arg[1].d[0]>>
          /\ last.ok => Len(sink) = last.before + 1
          /\ \A c \in Capabilities :
                /\ ByteOrdered_write_u8(c, last.arg[1], SubSeq(sink, 1, last.before), last.f)
                     = ByteOrdered_write_u8(last.cap, last.arg[1], SubSeq(sink, 1, last.before), last.f)
                /\ \E t \in ByteOrdered_write_u8(c, last.arg[1], SubSeq(sink, 1, last.before), last.f) :
                      SameWrite(t)

C17_Witness ==
    /\ last.op = "read" /\ last.ty = "i8" /\ last.ok
    /\ src = <<0, 193, 255, 124>> /\ last.before = 1 /\ pos = 2
    /\ last.cap = Endianness(Big)
    /\ IntOf8(last.val[1]) = 0 - 63

(***************************************************************************)
(* into_inner: the wrapper gives up the endpoint it holds, as it is        *)
(***************************************************************************)
ByteOrdered_into_inner(inner) == inner

IntoInner ==
    /\ wrapped
    /\ LET inner == ByteOrdered_into_inner([pos |-> pos, sink |-> sink])
       IN /\ pos' = inner.pos
          /\ sink' = inner.sink
          /\ last' = Call("into_inner", "none", 0, endianness, pos, <<>>,
                          [ok |-> TRUE, val |-> <<inner>>, err |-> <<>>, io |-> <<>>], FALSE, <<>>)
    /\ wrapped' = FALSE
    /\ UNCHANGED <<view, target, endpoint, src, faults, endianness, written, consumed, scope>>

InitInner ==
    /\ InitOver({"reader", "writer"}, {<<1, 2, 3>>, <<0, 193, 255, 124>>}, 0)
    /\ wrapped

NextInner ==
    \/ \E ty \in Types : Read(ty)
    \/ \E ty \in ByteTypes : ReadByte(ty)
    \/ \E m \in ReaderMethods \ {"seek"}, n \in 0..MaxRaw : RawIn(m, n)
    \/ \E v \in CoreSamples : Write(v)
    \/ \E m \in WriterMethods, buf \in RawChunks : RawOut(m, buf)
    \/ IntoInner

SpecInner == InitInner /\ [][NextInner]_vars

\* The bytes a successful reading call handed to its caller.
Delivered(c) ==
    CASE c.op \in {"read", "read_into"} /\ c.ty \in ByteTypes -> <<c.val[1].d[0]>>
      [] c.op = "read" /\ c.ty \in Types -> Encoding(c.val[1], OrderOf(c.cap))
      [] c.op = "read" /\ c.ty = "none" -> c.val[1]
      [] c.op \in {"read_exact", "read_to_end"} -> c.val[1]
      [] OTHER -> <<>>

\* The bytes a successful writing call took from its caller.
Accepted(c) ==
    CASE c.op = "write" /\ c.ty \in ByteTypes -> <<c.arg[1].d[0]>>
      [] c.op = "write" /\ c.ty \in Types -> Encoding(c.arg[1], OrderOf(c.cap))
      [] c.op = "write" /\ c.ty = "none" -> SubSeq(c.arg[1], 1, c.val[1])
      [] c.op = "write_all" -> c.arg[1]
      [] OTHER -> <<>>

(***************************************************************************)
(* C18: the wrapper keeps no bytes of its own.  Through any mix of numeric *)
(* and raw calls the reader stands right after the bytes handed to the     *)
(* caller so far; each reading call starts where the endpoint stands and   *)
(* hands over exactly the bytes it moves it past (fill_buf moves nothing); *)
(* each writing call has put the bytes it accepted at the end of the sink  *)
(* by the time it returns; and into_inner returns the endpoint at that     *)
(* position with those contents.                                           *)
(***************************************************************************)
C18_NoBuffer ==
    /\ [](consumed.clean => pos = consumed.bytes)
    /\ [](last.op = "into_inner" =>
            /\ ~wrapped
            /\ last.val = <<[pos |-> pos, sink |-> sink]>>)
    /\ [][last'.op = "into_inner" => UNCHANGED <<src, pos, sink, consumed, written>>]_vars
    /\ [][(endpoint = "reader" /\ last'.ok /\ last'.op # "into_inner") =>
            /\ last'.before = pos
            /\ last'.op = "consume" => pos' = pos + last'.n
            /\ last'.op = "fill_buf" => pos' = pos /\ last'.val[1] = SubSeq(src, pos + 1, Len(src))
            /\ last'.op \notin {"consume", "fill_buf"} => Delivered(last') = SubSeq(src, pos + 1, pos')]_vars
    /\ [][(endpoint = "writer" /\ last'.ok /\ last'.op # "into_inner") =>
            /\ last'.before = Len(sink)
            /\ sink' = sink \o Accepted(last')]_vars

C18_Witness ==
    /\ last.op = "into_inner" /\ ~wrapped
    /\ src = <<0, 193, 255, 124>> /\ pos = 3
    /\ consumed = [bytes |-> 3, clean |-> TRUE]
    /\ last.val = <<[pos |-> 3, sink |-> <<>>]>>

(***************************************************************************)
(* Wrappers converted between numeric reads and writes                     *)
(***************************************************************************)
InitConvert ==
    /\ InitOver({"reader", "writer"}, {<<1, 2, 3>>, <<0, 193, 255, 124>>}, 0)
    /\ wrapped

NextConvert ==
    \/ \E ty \in Types : Read(ty)
    \/ \E v \in CoreSamples : Write(v)
    \/ IntoOpposite
    \/ IntoLe
    \/ IntoBe
    \/ IntoNative
    \/ \E e \in Capabilities : IntoEndianness(e)

SpecConvert == InitConvert /\ [][NextConvert]_vars

Conversions == {"into_opposite", "into_le", "into_be", "into_native", "into_endianness"}

RuntimeOrders ==
    LET given == {Little, Big, native} \cup
                 {le_iff(b) : b \in BOOLEAN} \cup {be_iff(b) : b \in BOOLEAN}
    IN  given \cup {to_opposite(e) : e \in given}

\* The type-level tags a wrapper can be built with.
StaticTags ==
    LET given == {LittleEndian, BigEndian, NativeEndian, NetworkEndian}
    IN  given \cup {HasOpposite(E) : E \in given}

\* The capabilities the constructors give a new wrapper.
Constructed ==
    {ByteOrdered_le, ByteOrdered_be, ByteOrdered_native, ByteOrdered_network} \cup
    {ByteOrdered_new_default(E) : E \in StaticTags} \cup
    {ByteOrdered_runtime(e) : e \in RuntimeOrders} \cup
    {ByteOrdered_new(From(StaticEndianness(E))) : E \in StaticTags}

\* A constructor called on an endpoint no wrapper holds.
Construct(c) ==
    /\ ~wrapped
    /\ wrapped' = TRUE
    /\ endianness' = c
    /\ last' = Call("new", "none", 0, endianness, pos, <<c>>, Done, FALSE, <<>>)
    /\ UNCHANGED <<view, target, endpoint, src, pos, sink, faults, written, consumed, scope>>

LifeSamples == {Int16("i16", 193)}

InitLife ==
    /\ target \in {"little", "big"}
    /\ endpoint \in {"reader", "writer"}
    /\ src \in (IF endpoint = "reader" THEN {<<1, 2, 3>>} ELSE {<<>>})
    /\ pos = 0
    /\ sink = <<>>
    /\ faults = MaxFaults
    /\ wrapped = TRUE
    /\ endianness \in Constructed
    /\ written = <<>>
    /\ consumed = [bytes |-> 0, clean |-> TRUE]
    /\ scope = NoScope
    /\ view = NoView(endianness)
    /\ last = Call("new", "none", 0, endianness, 0, <<endianness>>, Done, FALSE, <<>>)

NextLife ==
    \/ \E c \in Constructed : Construct(c)
    \/ \E e \in Constructed : SetEndianness(e)
    \/ \E e \in Constructed : IntoEndianness(e)
    \/ IntoOpposite
    \/ IntoLe
    \/ IntoBe
    \/ IntoNative
    \/ Read("u16")
    \/ ReadByte("u8")
    \/ \E n \in 1..MaxRaw : RawIn("read_exact", n)
    \/ \E v \in LifeSamples : Write(v)
    \/ IntoInner

SpecLife == InitLife /\ [][NextLife]_vars

\* Capability c stands for order o.
Denotes(c, o) ==
    \/ c.kind = "StaticEndianness" /\ o = Little /\ c.order = LittleEndian
    \/ c.kind = "StaticEndianness" /\ o = Big /\ c.order = BigEndian
    \/ c.kind = "Endianness" /\ c.order = o

(***************************************************************************)
(* C20: however a wrapper was built, re-ordered, converted and used, and   *)
(* whether its reads and writes succeeded or failed, the capability it     *)
(* holds stands for exactly one of Little and Big; the platform's order is *)
(* one of the two, as a tag and as a runtime value.                        *)
(***************************************************************************)
C20_OneOfTwoOrders ==
    /\ Cardinality({o \in {Little, Big} : Denotes(endianness, o)}) = 1
    /\ Cardinality({o \in {Little, Big} : Denotes(last.cap, o)}) = 1
    /\ endianness.kind = "StaticEndianness" => Denotes(endianness, From(endianness).order)
    /\ Cardinality({o \in {Little, Big} : Denotes(Endianness(native), o)}) = 1
    /\ Cardinality({o \in {Little, Big} : Denotes(StaticEndianness(NativeEndian), o)}) = 1
    /\ Denotes(ByteOrdered_native, native)

C20_Witness ==
    /\ wrapped /\ target = "big"
    /\ last.op = "read" /\ ~last.ok /\ last.err # <<>>
    /\ endianness = Endianness(native)
    /\ faults < last.f /\ pos > 0

(***************************************************************************)
(* Conversions between the two providers                                   *)
(***************************************************************************)
\* The static capability a runtime order resolves to in the arm it selects.
into_static(e) == StaticEndianness(with_order_branch(e.order))

\* The capability of the other provider the conversions give for c.
OtherKind(c) == IF c.kind = "StaticEndianness" THEN From(c) ELSE into_static(c)

\* Endianness::from(tag).
IntoRuntime ==
    /\ endianness.kind = "StaticEndianness"
    /\ endianness' = From(endianness)
    /\ last' = Call("from", "none", 0, endianness, pos, <<>>, Done, FALSE, <<>>)
    /\ UNCHANGED <<view, target, endpoint, src, pos, sink, faults, wrapped, written, consumed, scope>>

\* The runtime order matched and replaced by the tag of the arm taken.
IntoStatic ==
    /\ endianness.kind = "Endianness"
    /\ endianness' = into_static(endianness)
    /\ last' = Call("into_static", "none", 0, endianness, pos, <<>>, Done, FALSE, <<>>)
    /\ UNCHANGED <<view, target, endpoint, src, pos, sink, faults, wrapped, written, consumed, scope>>

InitKinds == InitOver({"reader", "writer"}, {<<>>, <<1, 2, 3>>, <<0, 193, 255, 124>>}, MaxFaults)

NextKinds ==
    \/ \E ty \in Types : Read(ty)
    \/ \E v \in CoreSamples : Write(v)
    \/ IntoRuntime
    \/ IntoStatic

SpecKinds == InitKinds /\ [][NextKinds]_vars

(***************************************************************************)
(* C21: the LittleEndian tag converts into Endianness::Little and the      *)
(* BigEndian tag into Endianness::Big; a runtime order converts into the   *)
(* tag of the same order.  Either conversion gives a capability of the     *)
(* other kind that compares equal to the one converted, and every read and *)
(* write made with a capability returned and left behind what the          *)
(* capability it converts into gives for the same call.                    *)
(***************************************************************************)
C21_ProvidersConvert ==
    /\ From(StaticEndianness(LittleEndian)) = Endianness(Little)
    /\ From(StaticEndianness(BigEndian)) = Endianness(Big)
    /\ last.op \in {"from", "into_static"} =>
          /\ endianness.kind # last.cap.kind
          /\ OrderOf(endianness) = OrderOf(last.cap)
          /\ PartialEq_eq(endianness, last.cap) /\ PartialEq_eq(last.cap, endianness)
          /\ ~PartialEq_eq(endianness, into_opposite(last.cap))
          /\ OtherKind(endianness) = last.cap
    /\ last.op = "read" =>
          \E t \in (IF wrapped
                    THEN ByteOrdered_read(OtherKind(last.cap), last.ty, src, last.before, last.f)
                    ELSE Endian_read(OtherKind(last.cap), last.ty, src, last.before, last.f)) :
              SameRead(t)
    /\ last.op = "write" =>
          \E t \in (IF wrapped
                    THEN ByteOrdered_write(OtherKind(last.cap), last.arg[1],
                                           SubSeq(sink, 1, last.before), last.f)
                    ELSE Endian_write(OtherKind(last.cap), last.arg[1],
                                      SubSeq(sink, 1, last.before), last.f)) :
              SameWrite(t)

C21_Witness ==
    /\ last.op = "from" /\ last.cap = StaticEndianness(LittleEndian)
    /\ endianness = Endianness(Little)
    /\ src = <<0, 193, 255, 124>> /\ pos = 2

(***************************************************************************)
(* C22: a scalar read, a bulk read or a write whose endpoint call fails    *)
(* returns that call's error and asks nothing more of the endpoint: the    *)
(* failed call is the last one the operation made, the endpoint stands     *)
(* where the failure left it, at most one device fault was met, and a      *)
(* failed bulk read has stopped short of its last element and reports no   *)
(* element.                                                                *)
(***************************************************************************)
C22_NoRetry ==
    (last.op \in {"read", "read_into", "write"}) =>
        /\ \A i \in 1..Len(last.io) :
              ~last.io[i].ok =>
                  /\ i = Len(last.io)
                  /\ ~last.ok
                  /\ last.err = last.io[i].err
        /\ ~last.ok =>
              /\ last.io # <<>> /\ ~last.io[Len(last.io)].ok
              /\ last.f - faults \in {0, 1}
              /\ last.f - faults = 1 <=> last.err[1].kind = "Other"
              /\ endpoint = "reader" => pos = last.err[1].at
              /\ endpoint = "writer" => Len(sink) = last.err[1].at
              /\ last.val = <<>>
        /\ last.op = "read_into" /\ ~last.ok =>
              /\ pos - last.before < last.n * Size(last.ty)
              /\ pos >= last.before

C22_Witness ==
    /\ last.op = "read_into" /\ ~last.ok /\ last.n = 2 /\ last.ty = "u16"
    /\ src = <<0, 193, 255, 124>> /\ last.before = 0 /\ pos = 3
    /\ last.cap.kind = "StaticEndianness"
    /\ last.err[1].kind = "Other" /\ faults = last.f - 1

(***************************************************************************)
(* Signed and unsigned reads of every width                                *)
(***************************************************************************)
InitSigned ==
    /\ InitOver({"reader"},
                {<<0, 193, 255, 124>>, <<255, 255, 255, 127>>, TEST_BYTES,
                 TEST_BYTES \o <<135, 101, 67, 33, 120, 86, 52, 18>>}, 0)
    /\ wrapped

NextSigned ==
    \/ \E ty \in Signed \cup Unsigned : Read(ty)
    \/ \E ty \in Signed \cup Unsigned, n \in 1..MaxDst : ReadInto(ty, n)

SpecSigned == InitSigned /\ [][NextSigned]_vars

\* The unsigned type of the width of a signed one.
UnsignedOf(ty) ==
    CASE ty = "i16" -> "u16" [] ty = "i32" -> "u32" [] ty = "i64" -> "u64" [] ty = "i128" -> "u128"

\* s is the two's-complement reading of the unsigned value u: the same bits,
\* negative exactly when u is at least half the range, and for 16 bits the
\* integer u or u - 2^16.
Reinterprets(s, u) ==
    LET top == Size(u.ty) - 1
    IN  /\ s.ty \in Signed /\ u.ty = UnsignedOf(s.ty)
        /\ s.d = u.d
        /\ s.ty = "i16" =>
              IntOf(s) = IF IntOf(u) < 32768 THEN IntOf(u) ELSE IntOf(u) - 65536
        /\ s.ty = "i16" => (IntOf(s) < 0 <=> u.d[top] >= 128)

LeIff(b) == ~wrapped /\ NoIo("le_iff", Endianness(le_iff(b)), b, <<>>)

\* Endianness::be_iff(b), kept as the capability in use.
BeIff(b) == ~wrapped /\ NoIo("be_iff", Endianness(be_iff(b)), b, <<>>)

InitIff ==
    /\ InitOver({"reader"}, CoreStreams \cup {<<1, 2, 3, 4>>}, MaxFaults)
    /\ ~wrapped
    /\ endianness.kind = "Endianness"

NextIff ==
    \/ \E b \in BOOLEAN : LeIff(b)
    \/ \E b \in BOOLEAN : BeIff(b)
    \/ \E ty \in Types : Read(ty)

SpecIff == InitIff /\ [][NextIff]_vars

(***************************************************************************)
(* C24: le_iff(b) is Little exactly when b holds and Big otherwise;        *)
(* be_iff(b) is Big exactly when b holds and Little otherwise; so          *)
(* le_iff(b) = be_iff(~b) = be_iff(b).to_opposite().  The bytes 04 01 read *)
(* as u16 give 260 under le_iff(true) and 1025 under le_iff(false).        *)
(***************************************************************************)
C24_OrderByCondition ==
    /\ last.op = "le_iff" =>
          /\ endianness.kind = "Endianness"
          /\ endianness.order = Little <=> last.flag
          /\ endianness.order = Big <=> ~last.flag
          /\ endianness.order = be_iff(~last.flag)
          /\ endianness.order = to_opposite(be_iff(last.flag))
    /\ last.op = "be_iff" =>
          /\ endianness.kind = "Endianness"
          /\ endianness.order = Big <=> last.flag
          /\ endianness.order = Little <=> ~last.flag
          /\ endianness.order = le_iff(~last.flag)
          /\ endianness.order = to_opposite(le_iff(last.flag))
    /\ (last.op = "read" /\ last.ok /\ last.ty = "u16" /\ src = <<4, 1>>) =>
          /\ last.cap = Endianness(le_iff(TRUE)) => IntOf(last.val[1]) = 260
          /\ last.cap = Endianness(le_iff(FALSE)) => IntOf(last.val[1]) = 1025
          /\ last.cap = Endianness(be_iff(FALSE)) => IntOf(last.val[1]) = 260

C24_Witness ==
    /\ last.op = "read" /\ last.ok /\ last.ty = "u16" /\ src = <<4, 1>>
    /\ last.cap = Endianness(le_iff(FALSE))
    /\ IntOf(last.val[1]) = 1025

(***************************************************************************)
(* lib.rs, the crate-level example: the first byte of the source is read   *)
(* as a tag, a runtime order is chosen from it, and the data that follows  *)
(* is read with that order.                                                *)
(***************************************************************************)
\* let endianness = if b1 != 0 { LE } else { BE };
example_endianness(b1) == IF b1 # 0 THEN LE ELSE BE

\* let b1 = data.read_u8()?;
ExampleTag ==
    /\ last.op = "new"
    /\ \E r \in read_exact(src, pos, 1, faults) :
          /\ pos' = r.pos
          /\ faults' = r.faults
          /\ consumed' = Account(r, 1)
          /\ last' = Call("read_u8", "u8", 1, endianness, pos, <<>>,
                          [ok |-> r.ok, val |-> IF r.ok THEN <<r.buf[1]>> ELSE <<>>,
                           err |-> r.err, io |-> <<IoCall("read_exact", 1, r)>>],
                          FALSE, <<>>)
    /\ UNCHANGED <<view, target, endpoint, src, sink, wrapped, endianness, written, scope>>

\* The order is chosen once the tag was read (`?` leaves on a failure).
ExampleChoose ==
    /\ last.op = "read_u8" /\ last.ok
    /\ endianness' = example_endianness(last.val[1])
    /\ last' = Call("choose", "none", 0, endianness, pos, <<last.val[1]>>, Done, FALSE, <<>>)
    /\ UNCHANGED <<view, target, endpoint, src, pos, sink, faults, wrapped, written, consumed, scope>>

\* let value: u32 = endianness.read_u32(&mut data)?; and the data after it.
ExampleRead(ty) ==
    /\ last.op \in {"choose", "read"}
    /\ last.ok
    /\ Read(ty)

InitExample ==
    /\ InitOver({"reader"},
                {<<>>, <<0>>, <<0, 1, 2, 3, 4>>, <<1, 1, 2, 3, 4>>, <<255, 18, 52, 86, 120>>,
                 <<0, 18, 52, 86, 120, 0, 193>>, <<2, 0, 193, 255, 124, 4, 1>>}, MaxFaults)
    /\ ~wrapped
    /\ endianness.kind = "Endianness"

NextExample ==
    \/ ExampleTag
    \/ ExampleChoose
    \/ \E ty \in {"u16", "u32", "i16"} : ExampleRead(ty)

SpecExample == InitExample /\ [][NextExample]_vars

(***************************************************************************)
(* C25: in the crate-level example the data after the tag byte b1 is read  *)
(* in Little Endian if b1 is 0 and in Big Endian otherwise.                *)
(***************************************************************************)
C25_TagZeroIsLittle ==
    (last.op = "read" /\ last.ok) =>
        LET b1 == src[1]
            o == IF b1 = 0 THEN Little ELSE Big
        IN  /\ OrderOf(last.cap) = o
            /\ last.val[1] = Decoding(last.ty, last.before, o)

(***************************************************************************)
(* lib.rs: the default bodies of the crate's ReadBytesExt / WriteBytesExt, *)
(* called on a bare endpoint                                               *)
(***************************************************************************)
\* As ReadBytesExt_default_read, decoding in network order.
ReadBytesExt_default_read_network(ty, data, p, f) == ReadBytesExt_read(NetworkEndian, ty, data, p, f)

\* byteorder::ReadBytesExt::read_ty::<byteorder::NativeEndian>(self)
ReadBytesExt_default_read(ty, data, p, f) == ReadBytesExt_read(NativeEndian, ty, data, p, f)

\* byteorder::WriteBytesExt::write_ty::<byteorder::NativeEndian>(self, x)
WriteBytesExt_default_write(v, out, f) == WriteBytesExt_write(NativeEndian, v, out, f)

DefaultRead(ty) ==
    /\ endpoint = "reader"
    /\ ~wrapped
    /\ \E out \in ReadBytesExt_default_read(ty, src, pos, faults) :
          /\ pos' = out.pos
          /\ faults' = out.faults
          /\ consumed' = Account(out, Size(ty))
          /\ last' = Call("default_read", ty, 1, endianness, pos, <<>>, out, FALSE, <<>>)
    /\ UNCHANGED <<view, target, endpoint, src, sink, wrapped, endianness, written, scope>>

DefaultWrite(v) ==
    /\ endpoint = "writer"
    /\ ~wrapped
    /\ Len(written) < MaxWrites
    /\ \E out \in WriteBytesExt_default_write(v, sink, faults) :
          /\ sink' = out.sink
          /\ faults' = out.faults
          /\ written' = IF out.ok
                        THEN Append(written, [v |-> v, cap |-> endianness, at |-> Len(sink)])
                        ELSE written
          /\ last' = Call("default_write", v.ty, 1, endianness, Len(sink), <<v>>,
                          [ok |-> out.ok, val |-> <<>>, err |-> out.err, io |-> out.io],
                          FALSE, <<>>)
    /\ UNCHANGED <<view, target, endpoint, src, pos, wrapped, endianness, consumed, scope>>

InitDefault ==
    /\ InitOver({"reader", "writer"},
                {<<>>, <<4, 1>>, <<0, 193, 255, 124>>, TEST_BYTES,
                 TEST_BYTES \o <<135, 101, 67, 33, 120, 86, 52, 18>>}, MaxFaults)
    /\ ~wrapped
    /\ endianness = Endianness(native)

NextDefault ==
    \/ \E ty \in Types : DefaultRead(ty)
    \/ \E v \in CoreSamples : DefaultWrite(v)

SpecDefault == InitDefault /\ [][NextDefault]_vars

(***************************************************************************)
(* C26: the default read_W of the crate's ReadBytesExt returns, consumes   *)
(* and fails as Endianness::native().read_W does on the same bytes, and    *)
(* the default write_W of WriteBytesExt produces the bytes                 *)
(* Endianness::native().write_W produces: the platform's order.            *)
(***************************************************************************)
C26_DefaultsAreNative ==
    /\ last.op = "default_read" =>
          /\ \E t \in Endian_read(Endianness(native), last.ty, src, last.before, last.f) :
                SameRead(t)
          /\ last.ok => last.val[1] = Decoding(last.ty, last.before, TargetOrder)
    /\ last.op = "default_write" =>
          /\ \E t \in Endian_write(Endianness(native), last.arg[1],
                                   SubSeq(sink, 1, last.before), last.f) :
                SameWrite(t)
          /\ last.ok => SubSeq(sink, last.before + 1, Len(sink)) = Encoding(last.arg[1], TargetOrder)

C26_Witness ==
    /\ last.op = "default_read" /\ last.ok /\ last.ty = "u32" /\ target = "little"
    /\ src = TEST_BYTES /\ last.before = 4 /\ pos = 8
    /\ last.val[1] = Lit("u32", <<135, 101, 67, 33>>)

(***************************************************************************)
(* as_mut: a view ByteOrdered<&mut T, E> over the endpoint of a wrapper.   *)
(* While the view lives the wrapper it borrows from cannot be used, so     *)
(* every call goes through the view: endianness is the view's capability   *)
(* and view.held the one of the wrapper it was taken from.  Dropping the   *)
(* view gives the wrapper back.                                            *)
(***************************************************************************)
\* Where the endpoint stands.
Stands == IF endpoint = "reader" THEN pos ELSE Len(sink)

AsMut ==
    /\ wrapped
    /\ ~view.active
    /\ view' = [active |-> TRUE, held |-> endianness, at |-> Stands, taken |-> 0]
    /\ endianness' = ByteOrdered_as_mut(endianness)
    /\ last' = Call("as_mut", "none", 0, endianness, Stands, <<>>, Done, FALSE, <<>>)
    /\ UNCHANGED <<target, endpoint, src, pos, sink, faults, wrapped, written, consumed, scope>>

\* The view goes out of scope; taken is what went through it.
DropView ==
    /\ view.active
    /\ view' = [view EXCEPT !.active = FALSE, !.taken = Stands - view.at]
    /\ endianness' = view.held
    /\ last' = Call("drop", "none", 0, endianness, Stands, <<>>, Done, FALSE, <<>>)
    /\ UNCHANGED <<target, endpoint, src, pos, sink, faults, wrapped, written, consumed, scope>>

InitView ==
    /\ InitOver({"reader", "writer"}, {<<1, 2, 3>>, <<0, 193, 255, 124>>}, 0)
    /\ wrapped

NextView ==
    \/ AsMut
    \/ DropView
    \/ Read("u16")
    \/ \E n \in 1..MaxRaw : RawIn("read_exact", n)
    \/ \E v \in LifeSamples : Write(v)
    \/ \E e \in Capabilities : SetEndianness(e)
    \/ IntoOpposite
    \/ IntoLe
    \/ IntoBe

SpecView == InitView /\ [][NextView]_vars

(***************************************************************************)
(* C27: as_mut gives a view with a copy of the order held, over the same   *)
(* endpoint.  Numeric and raw I/O through the view moves the endpoint of   *)
(* the wrapper it came from, which reads on after the bytes the view took; *)
(* set_endianness, into_opposite, into_le and into_be on the view never    *)
(* change the order that wrapper holds.                                    *)
(***************************************************************************)
C27_ViewSharesEndpoint ==
    /\ [](/\ last.op = "as_mut" =>
                /\ view.active /\ endianness = view.held /\ last.cap = view.held
                /\ view.at = Stands
          /\ last.op = "drop" => ~view.active /\ endianness = view.held
          /\ (endpoint = "reader" /\ consumed.clean) => pos = consumed.bytes
          /\ (endpoint = "reader" /\ ~view.active /\ view.taken > 0) => pos >= view.at + view.taken
          /\ (~view.active /\ view.taken > 0 /\ last.op \in {"read", "read_exact", "write"}) =>
                last.before >= view.at + view.taken)
    /\ [][(view.active /\ last'.op \in {"set_endianness", "into_opposite", "into_le", "into_be",
                                        "read", "read_exact", "write"}) =>
             view' = view]_vars
    /\ [][last'.op \in {"as_mut", "drop"} => UNCHANGED <<src, pos, sink, faults, consumed>>]_vars
    /\ [][last'.op = "drop" => endianness' = view.held /\ view'.taken = Stands - view.at]_vars

C27_Witness ==
    /\ endpoint = "reader" /\ src = <<0, 193, 255, 124>>
    /\ ~view.active /\ view.at = 0 /\ view.taken = 2
    /\ last.op = "read" /\ last.ok /\ last.ty = "u16" /\ last.before = 2 /\ pos = 4
    /\ endianness = StaticEndianness(BigEndian) /\ endianness = view.held
    /\ last.val[1] = Lit("u16", <<255, 124>>)

(***************************************************************************)
(* Reads of one width against reads of half that width                     *)
(***************************************************************************)
\* The unsigned type of half the width.
HalfOf(ty) == CASE ty = "u32" -> "u16" [] ty = "u64" -> "u32" [] ty = "u128" -> "u64"

\* v = hi * 2^W + lo, W the width of hi and lo, digit by digit in base 256.
Composes(v, hi, lo) ==
    LET n == Size(lo.ty)
    IN  /\ Size(hi.ty) = n /\ Size(v.ty) = 2 * n
        /\ \A i \in 0..(n - 1) : v.d[i] = lo.d[i] /\ v.d[n + i] = hi.d[i]

(***************************************************************************)
(* C28: for W of 16, 32 and 64 bits a 2W-bit unsigned read returns         *)
(* hi * 2^W + lo, where hi and lo are what two successive W-bit unsigned   *)
(* reads return from the same position: hi first under Big, lo first under *)
(* Little.  The test bytes under Little are 0x78563412 then 0x87654321 as  *)
(* u32 and 0x8765432178563412 as u64.                                      *)
(***************************************************************************)
C28_WidthComposition ==
    (last.op = "read" /\ last.ok /\ last.ty \in {"u32", "u64", "u128"}) =>
        LET pair == Successive(last.cap, HalfOf(last.ty), 2, src, last.before)
            little == OrderOf(last.cap) = Little
        IN  /\ Len(pair) = 2
            /\ Composes(last.val[1], IF little THEN pair[2] ELSE pair[1],
                                     IF little THEN pair[1] ELSE pair[2])
            /\ (src = TEST_BYTES /\ little /\ last.ty = "u64") =>
                  /\ pair = <<Lit("u32", <<120, 86, 52, 18>>), Lit("u32", <<135, 101, 67, 33>>)>>
                  /\ last.val[1] = Lit("u64", <<135, 101, 67, 33, 120, 86, 52, 18>>)

C28_Witness ==
    /\ last.op = "read" /\ last.ok /\ last.ty = "u64" /\ src = TEST_BYTES
    /\ last.cap = Endianness(Little)
    /\ last.val[1] = Lit("u64", <<135, 101, 67, 33, 120, 86, 52, 18>>)

(***************************************************************************)
(* C29: a bulk read into a destination of length 0 succeeds, whatever the  *)
(* type, the order and the provider: nothing is consumed, nothing is       *)
(* stored, no endpoint call fails and no device fault is met, also when    *)
(* the source is empty or has been read to its end.                        *)
(***************************************************************************)
C29_EmptyBulkRead ==
    (last.op = "read_into" /\ last.n = 0) =>
        /\ last.ok /\ last.err = <<>> /\ last.val = <<>>
        /\ pos = last.before
        /\ faults = last.f
        /\ \A i \in 1..Len(last.io) : last.io[i].ok /\ last.io[i].n = 0
        /\ \A c \in Capabilities :
              \A t \in (IF wrapped
                        THEN ByteOrdered_read_into(c, last.ty, 0, src, last.before, last.f)
                        ELSE Endian_read_into(c, last.ty, 0, src, last.before, last.f)) :
                  t.ok /\ t.pos = last.before /\ t.faults = last.f

C29_Witness ==
    /\ last.op = "read_into" /\ last.n = 0 /\ last.ok
    /\ src = <<1, 2, 3>> /\ pos = 3 /\ last.before = 3
    /\ last.ty = "u64" /\ last.cap = Endianness(Big) /\ wrapped

(***************************************************************************)
(* Wrappers that keep being used after a call failed                       *)
(***************************************************************************)
\* endianness() on the wrapper; chain keeps the call made before.
GetEndianness ==
    /\ wrapped
    /\ last.op # "endianness"
    /\ last' = Call("endianness", "none", 0, endianness, Stands, <<>>,
                    [ok |-> TRUE, val |-> <<ByteOrdered_endianness(endianness)>>,
                     err |-> <<>>, io |-> <<>>],
                    FALSE, <<[last EXCEPT !.chain = <<>>]>>)
    /\ UNCHANGED <<target, endpoint, src, pos, sink, faults, wrapped, endianness, written,
                   consumed, scope, view>>

InitFailing ==
    /\ InitOver({"reader", "writer"}, {<<1, 2, 3>>, <<0, 193, 255, 124>>}, MaxFaults)
    /\ wrapped

NextFailing ==
    \/ \E ty \in {"i16", "u16", "i32", "u64"} : Read(ty)
    \/ \E v \in LifeSamples : Write(v)
    \/ GetEndianness

SpecFailing == InitFailing /\ [][NextFailing]_vars

\* Some call on the endpoint has failed so far.
HasFailed == ~consumed.clean \/ faults < MaxFaults

(***************************************************************************)
(* C30: a numeric read or write that fails leaves the wrapper holding the  *)
(* order it held: endianness() right after the failure reports the order   *)
(* the failed call was made with, and the reads and writes that succeed    *)
(* after a failure decode and encode with that same order.                 *)
(***************************************************************************)
C30_OrderSurvivesFailure ==
    /\ [](/\ (last.op = "endianness" /\ ~last.chain[1].ok) =>
                /\ last.chain[1].op \in {"read", "write"}
                /\ last.val[1] = last.chain[1].cap
                /\ last.val[1] = endianness
          /\ (HasFailed /\ last.op = "read" /\ last.ok) =>
                /\ last.cap = endianness
                /\ last.val[1] = Decoding(last.ty, last.before, OrderOf(endianness))
          /\ (HasFailed /\ last.op = "write" /\ last.ok) =>
                /\ last.cap = endianness
                /\ SubSeq(sink, last.before + 1, Len(sink)) =
                      Encoding(last.arg[1], OrderOf(endianness)))
    /\ [][(last'.op \in {"read", "write"} /\ ~last'.ok) =>
             /\ endianness' = endianness
             /\ wrapped'
             /\ last'.cap = endianness]_vars
    /\ [][endianness' = endianness]_vars

C30_Witness ==
    /\ last.op = "read" /\ last.ok /\ last.ty = "u16" /\ HasFailed
    /\ ~consumed.clean /\ faults = MaxFaults
    /\ src = <<1, 2, 3>> /\ last.before = 0 /\ pos = 2
    /\ endianness = Endianness(Little) /\ last.val[1] = Lit("u16", <<2, 1>>)

====
